---- MODULE Spec2Model ----
(***************************************************************************)
(* Model of the core of polymarket-trading-bot:                            *)
(*   - SpikeDetector        (src/core/spike_detector.py)                   *)
(*   - ConnectionPool       (src/core/connection_pool.py)                  *)
(*   - MultiMarketScanner   (src/core/market_scanner.py)                   *)
(*   - WebSocketManager     (src/core/websocket_manager.py)                *)
(*   - EventLoopManager     (src/core/event_loop.py)                       *)
(*   - StrategyOrchestrator (src/strategy_orchestrator.py)                 *)
(*   - PolymarketBotV2's strategy execution and market discovery loops     *)
(*     (src/bot_v2.py)                                                     *)
(* Each component has its own variables and its own specification          *)
(* (SpecSpike, SpecPool, SpecScanner, SpecStream, SpecEvents and SpecTasks,*)
(* SpecOrch, SpecBot); the other components' variables stay unchanged      *)
(* under it.  SpecDiscovery runs the bot's discovery loop beside its       *)
(* scanner.  Time is the integer number of seconds since Epoch;            *)
(* time.time() is a clock that only moves forward.                         *)
(***************************************************************************)
EXTENDS Integers, Sequences, FiniteSets, TLC

VARIABLES
    \* ---- SpikeDetector ----
    price_history,      \* deque(maxlen=history_size) of [price, timestamp]
    last_spike_time,    \* time.time() of the last returned spike, 0 = never
    spike_count,        \* number of spikes returned
    sd_now,             \* time.time()
    sd_result,          \* value returned by the latest detect_spike() call
    sd_prev,            \* detection_time of the spike returned before sd_last
    sd_last,            \* detection_time of the latest spike returned, 0 = none
    sd_op,              \* the SpikeDetector operation that made the latest step
    \* ---- ConnectionPool ----
    connections,        \* name -> [error_count, last_check, latency_samples]
    error_count,        \* global error counter
    circuit_opened_at,  \* time.time() when the circuit opened, 0 = never
    state,              \* ConnectionState
    cp_now,             \* time.time()
    consecutive_errors, \* record_error calls since the latest record_success
    cp_op,              \* the ConnectionPool operation that made the latest step
    \* ---- MultiMarketScanner ----
    active_markets,     \* dict market_id -> market, as the list of its values
                        \* in insertion order
    market_tokens,      \* dict market_id -> <<yes_token, no_token>>
    running,            \* MultiMarketScanner.running
    session,            \* "none", "open" or "closed"
    last_scan_time,     \* time.time() of the latest completed scan, 0 = never
    ms_now,             \* the clock
    start_pc,           \* position of a start() call: "idle", "fetch" (its
                        \* scan awaits the catalog) or "failing" (the session
                        \* of that fetch has been closed)
    call_pc,            \* position of a direct scan_markets() call
    loop_pc,            \* number of _scanning_loop tasks at each position
    ms_returned,        \* ids of the list returned by the latest scan_markets()
    ms_discarded,       \* ids the latest scan_markets() discarded because
                        \* their side identifiers could not be extracted
    ms_last_cleanup,    \* time of the latest _cleanup_closed_markets(), 0 = never
    \* ---- WebSocketManager ----
    mode,               \* ConnectionMode
    ws,                 \* self.ws: "none", "open" or "closed"
    ws_session,         \* self.session: "none", "open" or "closed"
    ws_running,         \* WebSocketManager.running
    reconnect_attempts,
    subscribed_markets,
    message_count,
    latency_samples,    \* len(self.latency_samples)
    ws_start_pc,        \* position of a start() call: "idle" or "connecting"
    ws_loops,           \* number of _websocket_loop tasks at each await:
                        \* receive (on self.ws), recv_old (on a socket
                        \* self.ws no longer refers to), recv_closed (on a
                        \* socket closed meanwhile), backoff, errsleep
    poll_sleep,         \* number of _rest_polling_loop tasks asleep
    poll_round,         \* number of _rest_polling_loop tasks in a round, by
                        \* the set of ids the round has still to poll
    ws_downgraded,      \* a _websocket_loop has fallen back to REST polling
                        \* since the latest stop()
    ws_op,              \* the WebSocketManager step made latest
    ws_sent,            \* the frame the latest step sent on the channel
    ws_calls,           \* the on_message invocations of the latest step
    \* ---- EventLoopManager ----
    ev_running,         \* EventLoopManager.running
    ev_tasks,           \* state of each coroutine passed to create_task:
                        \* "none", "pending", "cancelling" (cancel() called),
                        \* "finished" or "cancelled"
    ev_tracked,         \* self.tasks
    event_handlers,     \* event type -> list of handlers
    shutdown_callbacks,
    run_pc,             \* position of run(): "idle" or "loop"
    sh_pc,              \* position of the shutdown() that found running
                        \* true: "idle", "callback" or "gather"
    sh_next,            \* index of the shutdown callback awaited
    sh_wait,            \* the tasks its gather waits for
    sh_log,             \* the callbacks it has called, in order
    emit_pc,            \* position of emit_event(): "idle" or "gather"
    emit_type,          \* arguments of the latest emit_event()
    emit_data,
    emit_snapshot,      \* the handlers registered for emit_type at the call
    emit_log,           \* the handler invocations the call made
    emit_done,          \* the invocations that have finished
    ev_op,              \* the EventLoopManager step made latest
    \* ---- StrategyOrchestrator ----
    strategies,         \* self.strategies
    capital_allocated,  \* strategy key -> capital, in cents
    total_capital,
    orch_pc,            \* "new" before the constructor has run, then "ready"
    cycle_log,          \* the calls on strategies the latest run_cycle() or
                        \* stop_all() made, in order
    cycle_stats,        \* the statistics the latest run_cycle() returned
    orch_op,            \* the StrategyOrchestrator operation made latest
    \* ---- PolymarketBotV2 ----
    bot_pc,             \* position of _strategy_execution_loop: "idle",
                        \* "sleep_open" (circuit breaker open), "gather"
                        \* or "sleep"
    bot_scanning,       \* number of tasks of the batch awaiting their scan
    bot_executing,      \* number of tasks of the batch awaiting execute_trade
    bot_op              \* the step of the loop or of a task made latest

sdVars == <<price_history, last_spike_time, spike_count, sd_now, sd_result,
            sd_prev, sd_last, sd_op>>

cpVars == <<connections, error_count, circuit_opened_at, state, cp_now,
            consecutive_errors, cp_op>>

msVars == <<active_markets, market_tokens, running, session, last_scan_time,
            ms_now, start_pc, call_pc, loop_pc, ms_returned, ms_discarded,
            ms_last_cleanup>>

wsVars == <<mode, ws, ws_session, ws_running, reconnect_attempts, subscribed_markets,
            message_count, latency_samples, ws_start_pc, ws_loops, poll_sleep,
            poll_round, ws_downgraded, ws_op, ws_sent, ws_calls>>

evVars == <<ev_running, ev_tasks, ev_tracked, event_handlers, shutdown_callbacks,
            run_pc, sh_pc, sh_next, sh_wait, sh_log, emit_pc, emit_type, emit_data,
            emit_snapshot, emit_log, emit_done, ev_op>>

orVars == <<strategies, capital_allocated, total_capital, orch_pc, cycle_log,
            cycle_stats, orch_op>>

btVars == <<bot_pc, bot_scanning, bot_executing, bot_op>>

vars == <<sdVars, cpVars, msVars, wsVars, evVars, orVars, btVars>>

\* the variables of the other components
notSd == <<cpVars, msVars, wsVars, evVars, orVars, btVars>>
notCp == <<sdVars, msVars, wsVars, evVars, orVars, btVars>>
notMs == <<sdVars, cpVars, wsVars, evVars, orVars, btVars>>
notWs == <<sdVars, cpVars, msVars, evVars, orVars, btVars>>
notEv == <<sdVars, cpVars, msVars, wsVars, orVars, btVars>>
notOr == <<sdVars, cpVars, msVars, wsVars, evVars, btVars>>
\* the bot's loop works on its own variables and on its ConnectionPool
notCpBot == <<sdVars, msVars, wsVars, evVars, orVars>>

(***************************************************************************)
(*                            SpikeDetector                                *)
(***************************************************************************)

\* Constructor arguments of SpikeDetector (defaults of __init__).
min_move == 150
time_window_min == 3
time_window_max == 10
cooldown_seconds == 30
\* deque maxlen (default 100): a short history, so that the oldest sample
\* is evicted within a few add_price calls.
history_size == 4

\* time.time() at construction: far above any cooldown, as the Unix epoch
\* time is, so that last_spike_time = 0 never blocks the first detection.
Epoch == 1000
\* the moments (seconds after Epoch) at which the detector is called
ClockOffsets == {0, 1, 5, 6, 35, 36}
ClockValues == {Epoch + d : d \in ClockOffsets}
\* prices fed to add_price
Prices == {50000, 50050, 50250}
\* at most this many seconds may an explicit timestamp lie before the clock
MaxBackdate == 1

Abs(x) == IF x < 0 THEN -x ELSE x

\* The value returned by detect_spike() when nothing is detected.
None == [direction |-> "None", price_change |-> 0, old_price |-> 0,
         new_price |-> 0, time_window |-> 0, detection_time |-> 0]

\* deque.append with maxlen: the oldest entry falls out when full.
DequeAppend(dq, e, maxlen) ==
    IF Len(dq) >= maxlen THEN Tail(dq) \o <<e>> ELSE Append(dq, e)

\* The backward scan of detect_spike: index of the first entry before the
\* newest one, going from the newest to the oldest, whose age relative to
\* the newest lies in [time_window_min, time_window_max]; 0 when none.
RECURSIVE ScanBack(_, _)
ScanBack(h, i) ==
    IF i < 1 THEN 0
    ELSE LET time_diff == h[Len(h)].timestamp - h[i].timestamp
         IN IF time_window_min <= time_diff /\ time_diff <= time_window_max
            THEN i
            ELSE ScanBack(h, i - 1)

\* the oldest entry in the band instead of the first one the backward scan
\* meets
past_entry_index_oldest(h) ==
    LET band == {i \in 1..(Len(h) - 1) :
                    LET time_diff == h[Len(h)].timestamp - h[i].timestamp
                    IN time_window_min <= time_diff /\ time_diff <= time_window_max}
    IN IF band = {} THEN 0 ELSE CHOOSE i \in band : \A j \in band : i <= j

past_entry_index(h) == ScanBack(h, Len(h) - 1)

\* detect_spike() as a function of the state it reads: the returned value.
detect_spike_result(h, last, now) ==
    IF now - last < cooldown_seconds THEN None
    ELSE IF Len(h) < 2 THEN None
    ELSE LET i == past_entry_index(h)
         IN IF i = 0 THEN None
            ELSE LET current == h[Len(h)]
                     past_entry == h[i]
                     price_change == current.price - past_entry.price
                 IN IF Abs(price_change) >= min_move
                    THEN [direction |-> IF price_change > 0 THEN "up" ELSE "down",
                          price_change |-> price_change,
                          old_price |-> past_entry.price,
                          new_price |-> current.price,
                          time_window |-> current.timestamp - past_entry.timestamp,
                          detection_time |-> current.timestamp]
                    ELSE None

\* add_price(price, timestamp): timestamp None means time.time().
add_price ==
    /\ \E price \in Prices,
          timestamp \in {t \in ClockValues : sd_now - MaxBackdate <= t /\ t <= sd_now} :
         price_history' = DequeAppend(price_history,
                             [price |-> price, timestamp |-> timestamp],
                             history_size)
    /\ sd_op' = "add_price"
    /\ UNCHANGED <<last_spike_time, spike_count, sd_now, sd_result, sd_prev, sd_last>>
    /\ UNCHANGED notSd

\* detect_spike()
detect_spike ==
    LET r == detect_spike_result(price_history, last_spike_time, sd_now)
    IN /\ sd_result' = r
       /\ IF r # None
          THEN /\ last_spike_time' = sd_now
               /\ spike_count' = spike_count + 1
               /\ sd_prev' = sd_last
               /\ sd_last' = r.detection_time
          ELSE UNCHANGED <<last_spike_time, spike_count, sd_prev, sd_last>>
       /\ sd_op' = "detect_spike"
       /\ UNCHANGED <<price_history, sd_now>>
       /\ UNCHANGED notSd

\* the clock advances
SdTick ==
    /\ \E t \in ClockValues :
         /\ t > sd_now
         /\ sd_now' = t
    /\ sd_op' = "tick"
    /\ UNCHANGED <<price_history, last_spike_time, spike_count, sd_result, sd_prev, sd_last>>
    /\ UNCHANGED notSd

InitSpike ==
    /\ price_history = <<>>
    /\ last_spike_time = 0
    /\ spike_count = 0
    /\ sd_now = Epoch
    /\ sd_result = None
    /\ sd_prev = 0
    /\ sd_last = 0
    /\ sd_op = "init"

NextSpike == add_price \/ detect_spike \/ SdTick

(***************************************************************************)
(*                     SpikeDetector: the claims                           *)
(***************************************************************************)

\* Some earlier sample whose age relative to the newest sample lies in
\* [time_window_min, time_window_max] differs from it by at least min_move.
SomeBandMove(h) ==
    /\ Len(h) >= 2
    /\ \E i \in 1..(Len(h) - 1) :
         LET age == h[Len(h)].timestamp - h[i].timestamp
         IN /\ time_window_min <= age /\ age <= time_window_max
            /\ Abs(h[Len(h)].price - h[i].price) >= min_move

\* C1: a detect_spike() call made outside the cooldown returns a spike if
\* and only if some earlier sample whose age relative to the newest sample
\* lies in [time_window_min, time_window_max] differs in price from the
\* newest sample by at least min_move in absolute value.
C1_SpikeIffSomeBandMove ==
    [][ (sd_op' = "detect_spike" /\ ~(sd_now - last_spike_time < cooldown_seconds))
          => ((sd_result' # None) <=> SomeBandMove(price_history)) ]_vars

\* C2: any two spikes returned by detect_spike have detection timestamps at
\* least cooldown_seconds apart.
C2_DetectionTimesCooldownApart ==
    (sd_prev # 0) => (sd_last - sd_prev >= cooldown_seconds)

\* The samples of the scenario: (t=0, 50000), (t=1, 50050), (t=5, 50250).
Scenario3 ==
    << [price |-> 50000, timestamp |-> Epoch + 0],
       [price |-> 50050, timestamp |-> Epoch + 1],
       [price |-> 50250, timestamp |-> Epoch + 5] >>

\* C3: with min_move=150, window [3,10] s and cooldown 30 s, after samples
\* (t=0, 50000), (t=1, 50050), (t=5, 50250), detect_spike at t=5 returns an
\* 'up' spike whose price change is 250 and whose old price is 50000; after
\* a further sample at t=6, detect_spike returns None.
C3_ScenarioUp250 ==
    [][ /\ ( /\ sd_op' = "detect_spike"
             /\ price_history = Scenario3
             /\ sd_now = Epoch + 5
             /\ last_spike_time = 0 )
          => ( /\ sd_result'.direction = "up"
               /\ sd_result'.price_change = 250
               /\ sd_result'.old_price = 50000 )
        /\ ( /\ sd_op' = "detect_spike"
             /\ Len(price_history) = 4
             /\ SubSeq(price_history, 1, 3) = Scenario3
             /\ price_history[4].timestamp = Epoch + 6
             /\ sd_now = Epoch + 6
             /\ last_spike_time = Epoch + 5 )
          => sd_result' = None ]_vars


\* the earlier samples of h whose age relative to the newest sample lies in
\* [time_window_min, time_window_max], as positions in h
InBand(h) ==
    {i \in 1..(Len(h) - 1) :
        /\ time_window_min <= h[Len(h)].timestamp - h[i].timestamp
        /\ h[Len(h)].timestamp - h[i].timestamp <= time_window_max}

C33_SpikeIdsIncrease ==
    [][ (sd_op' = "detect_spike") =>
          IF sd_result' # None
          THEN /\ spike_count' = spike_count + 1
               /\ (spike_count > 0) => sd_result'.detection_time > sd_last
          ELSE spike_count' = spike_count ]_vars

(***************************************************************************)
(*                            ConnectionPool                               *)
(***************************************************************************)

\* ConnectionState
HEALTHY == "healthy"
DEGRADED == "degraded"
UNHEALTHY == "unhealthy"
CIRCUIT_OPEN == "circuit_open"

\* Constructor arguments of ConnectionPool (defaults 200, 5, 60).
latency_threshold_ms == 200
error_threshold == 3
circuit_timeout == 2
\* capacity of a connection's latency_samples list (100 in record_latency)
latency_capacity == 2

\* names passed to record_success, record_error and record_latency; the bot
\* reports execution outcomes under a name it never registers
ConnectionNames == {"websocket", "strategy_execution"}
\* names passed to register_connection and unregister_connection
RegisteredNames == {"websocket"}
\* latencies reported, in ms
Latencies == {100, 400}
\* the pool's clock runs from Epoch to Epoch + MaxPoolClock
MaxPoolClock == 4
\* record_error is not called once a counter has reached this value
MaxErrorCount == 5

RECURSIVE SeqSum(_)
SeqSum(q) == IF q = <<>> THEN 0 ELSE Head(q) + SeqSum(Tail(q))

\* _open_circuit() without its test of the state: the timer restarts
open_circuit_restart(st, opened, now) == <<CIRCUIT_OPEN, now>>

\* _open_circuit(): <<state, circuit_opened_at>> after the call
open_circuit(st, opened, now) ==
    IF st # CIRCUIT_OPEN THEN <<CIRCUIT_OPEN, now>> ELSE <<st, opened>>

\* an _update_state() that leaves an expired open circuit for Unhealthy
update_state_unhealthy(st, ec, opened, now) ==
    IF st = CIRCUIT_OPEN
    THEN IF now - opened > circuit_timeout
         THEN <<UNHEALTHY, 0, opened>>
         ELSE <<st, ec, opened>>
    ELSE IF ec >= error_threshold
         THEN LET o == open_circuit(st, opened, now) IN <<o[1], ec, o[2]>>
         ELSE IF ec > 0 THEN <<DEGRADED, ec, opened>>
         ELSE <<HEALTHY, ec, opened>>

\* _update_state(): <<state, error_count, circuit_opened_at>> after the call
update_state(st, ec, opened, now) ==
    IF st = CIRCUIT_OPEN
    THEN IF now - opened > circuit_timeout
         THEN <<DEGRADED, 0, opened>>
         ELSE <<st, ec, opened>>
    ELSE IF ec >= error_threshold
         THEN LET o == open_circuit(st, opened, now) IN <<o[1], ec, o[2]>>
         ELSE IF ec > 0 THEN <<DEGRADED, ec, opened>>
         ELSE <<HEALTHY, ec, opened>>

\* is_healthy() that accepts the Healthy state only
is_healthy_strict == state = HEALTHY

\* is_healthy()
is_healthy == state \in {HEALTHY, DEGRADED}

\* can_execute()
can_execute == state # CIRCUIT_OPEN

\* register_connection(name, connection)
register_connection ==
    /\ \E name \in RegisteredNames :
         connections' = [n \in DOMAIN connections \cup {name} |->
                            IF n = name
                            THEN [error_count |-> 0, last_check |-> 0,
                                  latency_samples |-> <<>>]
                            ELSE connections[n]]
    /\ cp_op' = "register_connection"
    /\ UNCHANGED <<error_count, circuit_opened_at, state, cp_now, consecutive_errors>>
    /\ UNCHANGED notCp

\* unregister_connection(name)
unregister_connection ==
    /\ \E name \in RegisteredNames :
         connections' = IF name \in DOMAIN connections
                        THEN [n \in DOMAIN connections \ {name} |-> connections[n]]
                        ELSE connections
    /\ cp_op' = "unregister_connection"
    /\ UNCHANGED <<error_count, circuit_opened_at, state, cp_now, consecutive_errors>>
    /\ UNCHANGED notCp

\* what record_success(name) does to the pool
record_success_to(name) ==
    /\ connections' = IF name \in DOMAIN connections
                      THEN [connections EXCEPT ![name].error_count = 0,
                                               ![name].last_check = cp_now]
                      ELSE connections
    /\ LET ec == IF error_count > 0 THEN error_count - 1 ELSE error_count
           u == update_state(state, ec, circuit_opened_at, cp_now)
       IN /\ state' = u[1]
          /\ error_count' = u[2]
          /\ circuit_opened_at' = u[3]
    /\ consecutive_errors' = 0

\* record_success(name)
record_success ==
    /\ \E name \in ConnectionNames : record_success_to(name)
    /\ cp_op' = "record_success"
    /\ UNCHANGED cp_now
    /\ UNCHANGED notCp

\* what record_error(name) does to the pool
record_error_to(name) ==
    /\ connections' = IF name \in DOMAIN connections
                      THEN [connections EXCEPT
                               ![name].error_count = connections[name].error_count + 1,
                               ![name].last_check = cp_now]
                      ELSE connections
    /\ LET u == update_state(state, error_count + 1, circuit_opened_at, cp_now)
           o == IF u[2] >= error_threshold
                THEN open_circuit(u[1], u[3], cp_now)
                ELSE <<u[1], u[3]>>
       IN /\ state' = o[1]
          /\ error_count' = u[2]
          /\ circuit_opened_at' = o[2]
    /\ consecutive_errors' = IF consecutive_errors < error_threshold
                             THEN consecutive_errors + 1
                             ELSE consecutive_errors

\* record_error(name)
record_error ==
    /\ error_count < MaxErrorCount
    /\ \E name \in ConnectionNames :
         /\ name \in DOMAIN connections => connections[name].error_count < MaxErrorCount
         /\ record_error_to(name)
    /\ cp_op' = "record_error"
    /\ UNCHANGED cp_now
    /\ UNCHANGED notCp

\* record_latency(name, latency_ms)
record_latency ==
    /\ \E name \in ConnectionNames, latency_ms \in Latencies :
         IF name \in DOMAIN connections
         THEN LET appended == Append(connections[name].latency_samples, latency_ms)
                  samples == IF Len(appended) > latency_capacity
                             THEN Tail(appended) ELSE appended
              IN /\ connections' = [connections EXCEPT ![name].latency_samples = samples]
                 \* avg_latency > latency_threshold_ms, without the division
                 /\ state' = IF /\ SeqSum(samples) > latency_threshold_ms * Len(samples)
                                /\ state = HEALTHY
                             THEN DEGRADED ELSE state
         ELSE UNCHANGED <<connections, state>>
    /\ cp_op' = "record_latency"
    /\ UNCHANGED <<error_count, circuit_opened_at, cp_now, consecutive_errors>>
    /\ UNCHANGED notCp

\* the clock advances by one second
CpTick ==
    /\ cp_now < Epoch + MaxPoolClock
    /\ cp_now' = cp_now + 1
    /\ cp_op' = "tick"
    /\ UNCHANGED <<connections, error_count, circuit_opened_at, state, consecutive_errors>>
    /\ UNCHANGED notCp

InitPool ==
    /\ connections = << >>
    /\ error_count = 0
    /\ circuit_opened_at = 0
    /\ state = HEALTHY
    /\ cp_now = Epoch
    /\ consecutive_errors = 0
    /\ cp_op = "init"

NextPool ==
    \/ register_connection
    \/ unregister_connection
    \/ record_success
    \/ record_error
    \/ record_latency
    \/ CpTick

(***************************************************************************)
(*                     ConnectionPool: the claims                          *)
(***************************************************************************)

\* C4: from any reachable state, after error_threshold consecutive
\* record_error calls with no record_success in between, can_execute()
\* returns false.
C4_ThresholdErrorsOpenCircuit ==
    (consecutive_errors >= error_threshold) => ~can_execute

\* C5: whenever the circuit has been open for more than circuit_timeout
\* seconds, the state is no longer CircuitOpen and can_execute() returns
\* true, without a later record_success or record_error call.
C5_OpenCircuitExpiresWithTime ==
    (cp_now - circuit_opened_at > circuit_timeout) => (state # CIRCUIT_OPEN /\ can_execute)

\* C24: can_execute() returns false exactly when the state is CircuitOpen,
\* and is_healthy() returns true exactly when the state is Healthy or
\* Degraded.
C24_AccessorsFollowState ==
    /\ state \in {HEALTHY, DEGRADED, UNHEALTHY, CIRCUIT_OPEN}
    /\ state = HEALTHY => (can_execute /\ is_healthy)
    /\ state = DEGRADED => (can_execute /\ is_healthy)
    /\ state = UNHEALTHY => (can_execute /\ ~is_healthy)
    /\ state = CIRCUIT_OPEN => (~can_execute /\ ~is_healthy)

\* C28: the circuit state is a function of the current error count, the
\* latency averages and the open timer, not of the order of past calls:
\* whenever the circuit is not open and the average latency of some
\* registered connection exceeds latency_threshold_ms, the state is
\* Degraded and not Healthy.
C28_HighLatencyMeansDegraded ==
    ( /\ state # CIRCUIT_OPEN
      /\ \E name \in DOMAIN connections :
            LET samples == connections[name].latency_samples
            IN /\ samples # <<>>
               /\ SeqSum(samples) > latency_threshold_ms * Len(samples) )
    => state = DEGRADED

\* C27: the state leaves CircuitOpen only through expiry of circuit_timeout:
\* a step made while the circuit is open leaves it open unless more than
\* circuit_timeout seconds have passed since it opened (so record_success
\* calls never close it), never changes circuit_opened_at (so record_error
\* calls do not restart the timer), and when it leaves, the state is
\* Degraded and the global error counter is 0.
C27_LeavesOpenOnlyByExpiry ==
    [][ (state = CIRCUIT_OPEN) =>
          /\ circuit_opened_at' = circuit_opened_at
          /\ (state' # CIRCUIT_OPEN) =>
                /\ cp_now - circuit_opened_at > circuit_timeout
                /\ state' = DEGRADED
                /\ error_count' = 0 ]_vars

\* C27 witness: a record_error call made while the circuit was open, after
\* which it is still open with the timer it had.
C27_Witness ==
    /\ cp_op = "record_error"
    /\ state = CIRCUIT_OPEN
    /\ error_count > error_threshold
    /\ circuit_opened_at < cp_now

\* C24 witness: both answers are seen: the circuit has been open and,
\* after its timeout, the pool is Degraded again.
C24_Witness ==
    /\ state = DEGRADED
    /\ circuit_opened_at # 0
    /\ can_execute
    /\ is_healthy

\* C36: the state Unhealthy is never reached by any sequence of register,
\* record_success, record_error and record_latency calls, so that in every
\* reachable state is_healthy() and can_execute() return the same value.
C36_UnhealthyNeverReached ==
    /\ state # UNHEALTHY
    /\ is_healthy <=> can_execute

\* C36 witness: an open circuit has expired and the pool, back in Degraded
\* with its counter reset, has been reported a high latency.
C36_Witness ==
    /\ cp_op = "record_latency"
    /\ state = DEGRADED
    /\ error_count = 0
    /\ circuit_opened_at # 0
    /\ \E name \in DOMAIN connections :
         LET samples == connections[name].latency_samples
         IN samples # <<>> /\ SeqSum(samples) > latency_threshold_ms * Len(samples)

\* C35: the global error counter is >= 0 and, whenever the state is not
\* CIRCUIT_OPEN, strictly below error_threshold; record_success lowers the
\* counter by one (never below 0) and record_error raises it by one,
\* whether or not the named connection is registered.
C35_CounterMovesByOne ==
    [][ /\ error_count' >= 0
        /\ (state' # CIRCUIT_OPEN) => error_count' < error_threshold
        /\ (cp_op' = "record_success") =>
              error_count' = (IF error_count > 0 THEN error_count - 1 ELSE 0)
        /\ (cp_op' = "record_error") => error_count' = error_count + 1 ]_vars

(***************************************************************************)
(*                          MultiMarketScanner                             *)
(***************************************************************************)

\* Constructor arguments of MultiMarketScanner (defaults 25 and 120 s).
max_markets == 2
min_time_remaining == 1
\* keywords and exclude_keywords, lower-cased by __init__
keywords == {"btc", "5min"}
exclude_keywords == {"test"}

\* the scanner's clock runs from Epoch to Epoch + MaxScanClock
MaxScanClock == 3
\* number of _scanning_loop tasks that may be alive at once
MaxLoops == 2

\* A text field is the set of lower-case keywords that occur in it, so that
\* "kw in text.lower()" is membership.
\* A token id is a string; "" and NoToken (Python None) are falsy.
NoToken == "None"
Truthy(token) == token # NoToken /\ token # ""

\* end_date_iso values: absent, a number, an ISO-8601 string of a time, or
\* a string that datetime.fromisoformat rejects.
NoEnd == [kind |-> "none", v |-> 0]
EndInt(t) == [kind |-> "int", v |-> t]
EndIso(t) == [kind |-> "iso", v |-> t]
EndBad == [kind |-> "badstr", v |-> 0]

Token(outcome, token_id) == [outcome |-> outcome, token_id |-> token_id]

\* wrong_type: the fields whose JSON value is not of the type the scanner
\* expects (null or a number where a string is expected)
Market(id, question, end, tokens, clob) ==
    [id |-> id, question |-> question, description |-> {}, slug |-> {},
     end_date_iso |-> end, tokens |-> tokens, clobTokenIds |-> clob,
     wrong_type |-> {}]

\* The records the catalog endpoint serves.
mA == Market("A", {"btc", "5min"}, EndInt(Epoch + 2),
             <<Token({"down"}, "noA"), Token({"up"}, "yesA")>>, <<"x", "y">>)
mB == Market("B", {"btc"}, EndIso(Epoch + 3), <<>>, <<"yesB", "noB">>)
mC == Market("C", {"5min"}, EndInt(Epoch + 9),
             <<Token({}, "yesC"), Token({}, "noC")>>, <<>>)
\* side identifiers that cannot be resolved
mE == Market("E", {"btc"}, EndInt(Epoch + 9),
             <<Token({"yes"}, "yesE"), Token({"no"}, NoToken)>>, <<"yesE", "noE">>)
mF == Market("F", {"btc"}, EndInt(Epoch + 9), <<Token({"yes"}, "yesF")>>, <<"yesF">>)
\* an excluded keyword, no end date, an unparseable end date
mG == Market("G", {"btc", "test"}, EndInt(Epoch + 9), <<>>, <<"yesG", "noG">>)
mI == Market("I", {"btc"}, NoEnd, <<>>, <<"yesI", "noI">>)
mJ == Market("J", {}, EndBad, <<>>, <<"yesJ", "noJ">>)

\* a record whose question is null
mN == [Market("N", {}, EndInt(Epoch + 9), <<>>, <<"yesN", "noN">>)
          EXCEPT !.wrong_type = {"question"}]

CatalogRecords == {mA, mB, mC, mE, mF, mG, mI, mJ, mN}

\* The responses of the catalog endpoint: the empty list, every record
\* alone, lists of two distinct records among those that pass the keyword
\* and time filters, one list of three, and lists with a malformed record
\* before and after a record that passes the filters.
Listed == {mA, mB, mC, mE}
Catalogs ==
    {<<>>} \cup {<<m>> : m \in CatalogRecords}
           \cup {c \in Listed \X Listed : c[1] # c[2]}
           \cup {<<mC, mB, mA>>}
           \cup {<<mN, mB>>, <<mB, mN>>}

\* _get_end_timestamp(market): 0 stands for None (both are falsy).
get_end_timestamp(market) ==
    LET end_time == market.end_date_iso
    IN CASE end_time.kind = "none"   -> 0
         [] end_time.kind = "iso"    -> end_time.v
         [] end_time.kind = "badstr" -> 0
         [] OTHER                    -> end_time.v

\* _matches_criteria(market) raises: lower() of a value that is no string
matches_criteria_raises(market) ==
    market.wrong_type \cap {"question", "description", "slug"} # {}

\* _matches_criteria(market)
matches_criteria(market) ==
    LET combined_text == market.question \cup market.description \cup market.slug
        has_keyword == \E kw \in keywords : kw \in combined_text
        has_excluded == \E kw \in exclude_keywords : kw \in combined_text
    IN has_keyword /\ ~has_excluded

\* _has_sufficient_time(market)
has_sufficient_time(market, now) ==
    LET end_time == get_end_timestamp(market)
    IN IF end_time = 0 THEN FALSE
       ELSE end_time - now > min_time_remaining

\* the loop over tokens of _extract_tokens: <<yes_token, no_token>>
RECURSIVE tokens_by_outcome(_, _, _, _)
tokens_by_outcome(tokens, i, yes_token, no_token) ==
    IF i > Len(tokens) THEN <<yes_token, no_token>>
    ELSE LET outcome == tokens[i].outcome
             token_id == tokens[i].token_id
         IN IF "yes" \in outcome \/ "up" \in outcome \/ "higher" \in outcome
            THEN tokens_by_outcome(tokens, i + 1, token_id, no_token)
            ELSE IF "no" \in outcome \/ "down" \in outcome \/ "lower" \in outcome
            THEN tokens_by_outcome(tokens, i + 1, yes_token, token_id)
            ELSE tokens_by_outcome(tokens, i + 1, yes_token, no_token)

\* _extract_tokens(market): <<yes_token, no_token>>
extract_tokens(market) ==
    IF Len(market.tokens) >= 2
    THEN LET t == tokens_by_outcome(market.tokens, 1, NoToken, NoToken)
         IN IF ~Truthy(t[1]) \/ ~Truthy(t[2])
            THEN <<market.tokens[1].token_id, market.tokens[2].token_id>>
            ELSE t
    ELSE IF Len(market.clobTokenIds) >= 2
         THEN <<market.clobTokenIds[1], market.clobTokenIds[2]>>
         ELSE <<NoToken, NoToken>>

\* tokens_resolved with "and" in place of "or": only a record with neither
\* side identifier is discarded
tokens_resolved_and(t) == Truthy(t[1]) \/ Truthy(t[2])

\* "if not yes_token or not no_token: continue" of scan_markets, negated
tokens_resolved(t) == Truthy(t[1]) /\ Truthy(t[2])

\* market_id in self.active_markets
Tracked(am, market_id) == \E i \in 1..Len(am) : am[i].id = market_id

ActiveIds(am) == {am[i].id : i \in 1..Len(am)}

\* The filter loop of scan_markets over the fetched list, from entry i on:
\* the registry, the tokens and the list of new markets it ends with, the
\* ids it discarded for want of side identifiers, and whether it ended by
\* an exception.
RECURSIVE scan_loop(_, _, _, _, _, _, _)
scan_loop(markets, i, am, mt, new_markets, discarded, now) ==
    IF i > Len(markets)
    THEN [am |-> am, mt |-> mt, new_markets |-> new_markets, discarded |-> discarded,
          raised |-> FALSE]
    ELSE LET market == markets[i]
             market_id == market.id
             t == extract_tokens(market)
         IN IF ~Tracked(am, market_id) /\ matches_criteria_raises(market)
            THEN [am |-> am, mt |-> mt, new_markets |-> new_markets,
                  discarded |-> discarded, raised |-> TRUE]
            ELSE IF \/ Tracked(am, market_id)
               \/ ~matches_criteria(market)
               \/ ~has_sufficient_time(market, now)
            THEN scan_loop(markets, i + 1, am, mt, new_markets, discarded, now)
            ELSE IF ~tokens_resolved(t)
            THEN scan_loop(markets, i + 1, am, mt, new_markets,
                           discarded \cup {market_id}, now)
            ELSE LET am2 == Append(am, market)
                     mt2 == [k \in DOMAIN mt \cup {market_id} |->
                                IF k = market_id THEN t ELSE mt[k]]
                     new2 == Append(new_markets, market)
                 IN IF Len(am2) >= max_markets
                    THEN [am |-> am2, mt |-> mt2, new_markets |-> new2,
                          discarded |-> discarded, raised |-> FALSE]
                    ELSE scan_loop(markets, i + 1, am2, mt2, new2, discarded, now)

\* is_closed with "time_remaining < 0"
is_closed_strict(market, now) ==
    LET end_time == get_end_timestamp(market)
    IN end_time # 0 /\ end_time - now < 0

\* "time_remaining <= 0" of _cleanup_closed_markets
is_closed(market, now) ==
    LET end_time == get_end_timestamp(market)
    IN end_time # 0 /\ end_time - now <= 0

\* closed_markets that stops at the first closed market it finds
closed_markets_first(am, now) ==
    LET closed == {j \in 1..Len(am) : is_closed(am[j], now)}
    IN {am[i].id : i \in {j \in closed : \A k \in closed : j <= k}}

\* the list closed_markets built by _cleanup_closed_markets
closed_markets(am, now) ==
    {am[i].id : i \in {j \in 1..Len(am) : is_closed(am[j], now)}}

\* _cleanup_closed_markets(): the registry and the tokens it leaves
cleanup_closed_markets(am, mt, now) ==
    LET closed == closed_markets(am, now)
    IN [am |-> SelectSeq(am, LAMBDA m : m.id \notin closed),
        mt |-> [k \in DOMAIN mt \ closed |-> mt[k]]]

\* get_active_markets()
get_active_markets == active_markets

\* get_market_by_id(market_id): the set holding the market, empty for None
get_market_by_id(market_id) ==
    {active_markets[i] : i \in {j \in 1..Len(active_markets) :
                                   active_markets[j].id = market_id}}

\* get_market_tokens(market_id): the set holding the tuple, empty for None
get_market_tokens(market_id) ==
    IF market_id \in DOMAIN market_tokens THEN {market_tokens[market_id]} ELSE {}

\* What a scan_markets() call does once its fetch has answered: response is
\* "failed" (HTTP status other than 200, timeout, closed session: the call
\* returns [] and leaves everything as it is) or the fetched list.
ScanDone(response) ==
    IF response = "failed"
    THEN /\ ms_returned' = <<>>
         /\ ms_discarded' = {}
         /\ UNCHANGED <<active_markets, market_tokens, last_scan_time>>
    ELSE LET r == scan_loop(response, 1, active_markets, market_tokens, <<>>, {}, ms_now)
         IN /\ active_markets' = r.am
            /\ ms_discarded' = r.discarded
            /\ market_tokens' = r.mt
            \* an exception of the loop is caught by scan_markets, which
            \* returns [] and keeps what the loop had registered
            /\ last_scan_time' = IF r.raised THEN last_scan_time ELSE ms_now
            /\ ms_returned' = IF r.raised THEN <<>>
                              ELSE [i \in 1..Len(r.new_markets) |-> r.new_markets[i].id]

Responses == {"failed"} \cup Catalogs

\* the answers a fetch can get: closing the session fails the fetches in flight
ResponsesAt(pc) == IF pc = "fetch" THEN Responses ELSE {"failed"}

\* the _scanning_loop tasks alive
Loops == loop_pc.sleep + loop_pc.fetch + loop_pc.failing

\* start(): sets running, opens a session and awaits the initial scan
start ==
    /\ ~running
    /\ start_pc = "idle"
    /\ Loops < MaxLoops
    /\ running' = TRUE
    /\ session' = "open"
    /\ start_pc' = "fetch"
    /\ UNCHANGED <<active_markets, market_tokens, last_scan_time, ms_now, call_pc,
                   loop_pc, ms_returned, ms_discarded, ms_last_cleanup>>
    /\ UNCHANGED notMs

\* start(): the initial scan answers, then the scanning loop task is created
start_scanned ==
    /\ start_pc # "idle"
    /\ \E response \in ResponsesAt(start_pc) : ScanDone(response)
    /\ start_pc' = "idle"
    /\ loop_pc' = [loop_pc EXCEPT !.sleep = @ + 1]
    /\ UNCHANGED <<running, session, ms_now, call_pc, ms_last_cleanup>>
    /\ UNCHANGED notMs

\* stop()
stop ==
    /\ running' = FALSE
    /\ session' = IF session = "open" THEN "closed" ELSE session
    /\ start_pc' = IF start_pc = "fetch" THEN "failing" ELSE start_pc
    /\ call_pc' = IF call_pc = "fetch" THEN "failing" ELSE call_pc
    /\ loop_pc' = [sleep |-> loop_pc.sleep, fetch |-> 0,
                   failing |-> loop_pc.failing + loop_pc.fetch]
    /\ UNCHANGED <<active_markets, market_tokens, last_scan_time, ms_now,
                   ms_returned, ms_discarded, ms_last_cleanup>>
    /\ UNCHANGED notMs

\* _scanning_loop: the loop test after creation or after the sleep, then
\* the cleanup, then the scan up to its fetch
scanning_loop ==
    /\ loop_pc.sleep > 0
    /\ IF ~running
       THEN /\ loop_pc' = [loop_pc EXCEPT !.sleep = @ - 1]
            /\ UNCHANGED <<active_markets, market_tokens, ms_returned, ms_discarded,
                           ms_last_cleanup>>
       ELSE LET c == cleanup_closed_markets(active_markets, market_tokens, ms_now)
            IN /\ active_markets' = c.am
               /\ market_tokens' = c.mt
               /\ ms_last_cleanup' = ms_now
               /\ IF Len(c.am) < max_markets
                  THEN IF session = "open"
                       THEN /\ loop_pc' = [loop_pc EXCEPT !.sleep = @ - 1,
                                                           !.fetch = @ + 1]
                            /\ UNCHANGED <<ms_returned, ms_discarded>>
                       ELSE \* session.get raises, scan_markets returns []
                            /\ ms_returned' = <<>>
                            /\ ms_discarded' = {}
                            /\ UNCHANGED loop_pc
                  ELSE UNCHANGED <<loop_pc, ms_returned, ms_discarded>>
    /\ UNCHANGED <<running, session, last_scan_time, ms_now, start_pc, call_pc>>
    /\ UNCHANGED notMs

\* _scanning_loop: its scan answers, then it sleeps scan_interval seconds
scanning_loop_scanned ==
    /\ \E pc \in {"fetch", "failing"} :
         /\ loop_pc[pc] > 0
         /\ \E response \in ResponsesAt(pc) : ScanDone(response)
         /\ loop_pc' = [loop_pc EXCEPT ![pc] = @ - 1, !.sleep = @ + 1]
    /\ UNCHANGED <<running, session, ms_now, start_pc, call_pc, ms_last_cleanup>>
    /\ UNCHANGED notMs

\* scan_markets() called directly, up to its fetch
scan_markets ==
    /\ call_pc = "idle"
    /\ IF session = "open"
       THEN /\ call_pc' = "fetch"
            /\ UNCHANGED <<ms_returned, ms_discarded>>
       ELSE \* no session or a closed one: the exception is caught, returns []
            /\ ms_returned' = <<>>
            /\ ms_discarded' = {}
            /\ UNCHANGED call_pc
    /\ UNCHANGED <<active_markets, market_tokens, running, session, last_scan_time,
                   ms_now, start_pc, loop_pc, ms_last_cleanup>>
    /\ UNCHANGED notMs

\* scan_markets() called directly: the fetch answers
scan_markets_scanned ==
    /\ call_pc # "idle"
    /\ \E response \in ResponsesAt(call_pc) : ScanDone(response)
    /\ call_pc' = "idle"
    /\ UNCHANGED <<running, session, ms_now, start_pc, loop_pc, ms_last_cleanup>>
    /\ UNCHANGED notMs

\* _cleanup_closed_markets() called directly
cleanup ==
    /\ LET c == cleanup_closed_markets(active_markets, market_tokens, ms_now)
       IN /\ active_markets' = c.am
          /\ market_tokens' = c.mt
    /\ ms_last_cleanup' = ms_now
    /\ UNCHANGED <<running, session, last_scan_time, ms_now, start_pc, call_pc,
                   loop_pc, ms_returned, ms_discarded>>
    /\ UNCHANGED notMs

\* the clock advances by one second
MsTick ==
    /\ ms_now < Epoch + MaxScanClock
    /\ ms_now' = ms_now + 1
    /\ UNCHANGED <<active_markets, market_tokens, running, session, last_scan_time,
                   start_pc, call_pc, loop_pc, ms_returned, ms_discarded,
                   ms_last_cleanup>>
    /\ UNCHANGED notMs

InitScanner ==
    /\ active_markets = <<>>
    /\ market_tokens = << >>
    /\ running = FALSE
    /\ session = "none"
    /\ last_scan_time = 0
    /\ ms_now = Epoch
    /\ start_pc = "idle"
    /\ call_pc = "idle"
    /\ loop_pc = [sleep |-> 0, fetch |-> 0, failing |-> 0]
    /\ ms_returned = <<>>
    /\ ms_discarded = {}
    /\ ms_last_cleanup = 0

NextScanner ==
    \/ start
    \/ start_scanned
    \/ stop
    \/ scanning_loop
    \/ scanning_loop_scanned
    \/ scan_markets
    \/ scan_markets_scanned
    \/ cleanup
    \/ MsTick

(***************************************************************************)
(*                   MultiMarketScanner: the claims                        *)
(***************************************************************************)

\* A scan_markets() call returns in this step.
ScanReturns ==
    \/ start_pc # "idle" /\ start_pc' = "idle"
    \/ call_pc # "idle" /\ call_pc' = "idle"
    \/ loop_pc'.sleep > loop_pc.sleep /\ Loops' = Loops

\* C6: in every reachable state of the scanner the number of entities in
\* the active registry is at most max_markets.
C6_RegistryWithinCapacity ==
    Len(active_markets) <= max_markets

\* C7: if the registry already holds max_markets entities, a scan_markets()
\* call registers no entity and returns an empty list.
C7_NoDiscoveryAtCapacity ==
    [][ Len(active_markets) >= max_markets
          => /\ ActiveIds(active_markets') \subseteq ActiveIds(active_markets)
             /\ ScanReturns => ms_returned' = <<>> ]_vars

\* C8: every registered entity id has an entry in market_tokens whose two
\* identifiers are both non-empty and are the ones resolved from its record,
\* and market_tokens has no entry for an unregistered id.
C8_RegisteredHaveBothSides ==
    /\ \A i \in 1..Len(active_markets) :
         LET market == active_markets[i]
         IN /\ market.id \in DOMAIN market_tokens
            /\ Truthy(market_tokens[market.id][1])
            /\ Truthy(market_tokens[market.id][2])
            /\ market_tokens[market.id] = extract_tokens(market)
    /\ DOMAIN market_tokens \subseteq ActiveIds(active_markets)

\* a scan has discarded a record whose sides cannot be resolved and has
\* registered another record of the same catalog
C8_Witness ==
    /\ ms_discarded # {}
    /\ ms_returned # <<>>
    /\ Len(active_markets) >= 1

MarketIds == {m.id : m \in CatalogRecords}

\* end time of the entity with this id
EndTimeOfId(id) == get_end_timestamp(CHOOSE m \in CatalogRecords : m.id = id)

\* C9 (as stated): at no moment do get_active_markets, get_market_by_id or
\* get_market_tokens return an entity whose end_time - now <= 0.
C9_NeverReturnsExpired ==
    /\ \A i \in 1..Len(get_active_markets) :
         get_end_timestamp(get_active_markets[i]) - ms_now > 0
    /\ \A id \in MarketIds :
         /\ \A market \in get_market_by_id(id) : get_end_timestamp(market) - ms_now > 0
         /\ get_market_tokens(id) # {} => EndTimeOfId(id) - ms_now > 0

\* C9 (amended): an entity is removed by the first _cleanup_closed_markets
\* run at or after its end time: every entity the accessors return had
\* end_time - t > 0 at the time t of the latest cleanup run.
C9_RemovedByNextCleanup ==
    /\ \A i \in 1..Len(get_active_markets) :
         get_end_timestamp(get_active_markets[i]) - ms_last_cleanup > 0
    /\ \A id \in MarketIds :
         /\ \A market \in get_market_by_id(id) :
              get_end_timestamp(market) - ms_last_cleanup > 0
         /\ get_market_tokens(id) # {} => EndTimeOfId(id) - ms_last_cleanup > 0

\* entity A, registered by the latest scan, has been evicted by a cleanup
\* run at or after its end time, which kept another entity
C9_Witness ==
    /\ \E i \in 1..Len(ms_returned) : ms_returned[i] = "A"
    /\ ~Tracked(active_markets, "A")
    /\ ms_last_cleanup >= Epoch + 2
    /\ Len(active_markets) >= 1

\* C10: after _cleanup_closed_markets has run, no registered entity has
\* end_time <= now, and running it again at the same time changes neither
\* active_markets nor market_tokens.
C10_CleanupIdempotent ==
    (ms_last_cleanup = ms_now) =>
       /\ \A i \in 1..Len(active_markets) :
            ~(get_end_timestamp(active_markets[i]) <= ms_now)
       /\ LET again == cleanup_closed_markets(active_markets, market_tokens, ms_now)
          IN again.am = active_markets /\ again.mt = market_tokens

\* a cleanup run at the present time has left the registry without the
\* two entities the latest scan had registered
C10_Witness ==
    /\ ms_last_cleanup = ms_now
    /\ ms_returned = <<"A", "B">>
    /\ active_markets = <<>>

\* C23: when one catalog record is malformed (a field of the wrong type),
\* scan_markets discards only that record and still examines, and registers
\* when eligible, the records that follow it: in every state of the scanner
\* a scan registers what it would register if the malformed records were
\* left out of the catalog it fetched.
C23_MalformedRecordOnlyDiscarded ==
    \A c \in Catalogs :
        LET well_formed == SelectSeq(c, LAMBDA m : m.wrong_type = {})
            r == scan_loop(c, 1, active_markets, market_tokens, <<>>, {}, ms_now)
            w == scan_loop(well_formed, 1, active_markets, market_tokens, <<>>, {}, ms_now)
        IN r.am = w.am /\ r.mt = w.mt

\* C37: the list returned by scan_markets() is exactly the entities this
\* call added to the registry, in catalog order (registry after = registry
\* before followed by the returned entities); in particular when the call
\* returns an empty list, because of an HTTP failure or of an exception, it
\* has left the registry unchanged.  Every step that lengthens the registry
\* is a scan_markets() call, whose returned list is ms_returned.
C37_ReturnsWhatItRegistered ==
    [][ LET n == Len(active_markets)
            added == Len(active_markets') - n
        IN (added > 0 /\ SubSeq(active_markets', 1, n) = active_markets) =>
              ms_returned' = [i \in 1..added |-> active_markets'[n + i].id] ]_vars

(***************************************************************************)
(*                           WebSocketManager                              *)
(***************************************************************************)

\* ConnectionMode
WEBSOCKET == "websocket"
REST_POLLING == "rest_polling"
DISCONNECTED == "disconnected"

\* Constructor argument of WebSocketManager (default 10).
max_reconnect_attempts == 2
\* Constructor argument of WebSocketManager (default 5), in seconds.
reconnect_delay == 5
\* capacity of latency_samples (100 in _handle_message)
sample_capacity == 2

\* token ids passed to subscribe_market and unsubscribe_market
TokenIds == {"t1", "t2"}
\* order books served for a token
Books == {"book1"}
\* live tasks (_websocket_loop and _rest_polling_loop) a start() may add to
MaxTasks == 2
\* no frame is delivered once message_count has reached this value
MaxMessages == 2

\* A JSON object is its set of keys, the token and the data it carries and
\* the type of its "timestamp" value ("absent" without the key).  A text is
\* the JSON text of an object or a text json.loads rejects.
JsonObject(keys, token_id, data, timestamp) ==
    [keys |-> keys, token_id |-> token_id, data |-> data, timestamp |-> timestamp]

\* json.dumps(message)
json_dumps(message) == [wellformed |-> TRUE, value |-> message]

NotJson == [wellformed |-> FALSE, value |-> JsonObject({}, "none", "none", "absent")]

\* the dict built by _poll_market_rest
market_update(token_id, data) ==
    JsonObject({"type", "token_id", "data", "timestamp"}, token_id, data, "number")

\* The TEXT frames the server may send about a token's order book: the
\* envelope above, the same with a timestamp that is a string, and the
\* server's own object without a timestamp.
ServerFrames(token_id, data) ==
    { json_dumps(market_update(token_id, data)),
      json_dumps([market_update(token_id, data) EXCEPT !.timestamp = "string"]),
      json_dumps(JsonObject({"event_type", "asset_id", "data"}, token_id, data, "absent")) }

TextFrames ==
    {NotJson} \cup UNION {ServerFrames(t, d) : t \in TokenIds, d \in Books}

\* Responses of GET /book: the status and the body (a book, or a body
\* response.json() rejects), or a request that raises (status 0).
RequestFailed == [status |-> 0, body |-> "none"]

PollResponses ==
    {RequestFailed} \cup [status : {200, 500}, body : Books \cup {"notjson"}]

NoFrame == [type |-> "none", market |-> "none"]
NoCalls == [src |-> "none", token_id |-> "none", data |-> "none", calls |-> <<>>]

\* _handle_message(message_data): message_count, the length of
\* latency_samples and the on_message invocations it makes
handle_message(message_data, mc, ls) ==
    IF ~message_data.wellformed
    THEN \* json.JSONDecodeError
         [message_count |-> mc, latency_samples |-> ls, calls |-> <<>>]
    ELSE LET message == message_data.value
         IN IF "timestamp" \in message.keys /\ message.timestamp # "number"
            THEN \* receive_time - message["timestamp"] raises TypeError
                 [message_count |-> mc, latency_samples |-> ls, calls |-> <<>>]
            ELSE [message_count |-> mc + 1,
                  latency_samples |->
                      IF "timestamp" \in message.keys /\ ls < sample_capacity
                      THEN ls + 1 ELSE ls,
                  calls |-> <<message>>]

\* _poll_market_rest(token_id) once its request has answered
poll_market_rest(token_id, response, mc, ls) ==
    IF response = RequestFailed
    THEN [message_count |-> mc, latency_samples |-> ls, calls |-> <<>>]
    ELSE IF response.status = 200 /\ response.body # "notjson"
    THEN handle_message(json_dumps(market_update(token_id, response.body)), mc, ls)
    ELSE [message_count |-> mc, latency_samples |-> ls, calls |-> <<>>]

\* self.ws = <a new socket>: a task still awaiting receive() on the socket
\* it replaces keeps waiting on the old one
ReplaceWs(loops) ==
    [loops EXCEPT !.recv_old = @ + loops.receive, !.receive = 0]

\* the sockets of the session are closed: every pending receive() sees it
CloseWs(loops) ==
    [loops EXCEPT !.recv_closed = @ + loops.receive + loops.recv_old,
                  !.receive = 0, !.recv_old = 0]

WsTasks == ws_loops.receive + ws_loops.recv_old + ws_loops.recv_closed
             + ws_loops.backoff + ws_loops.errsleep

RECURSIVE FunSum(_, _)
FunSum(f, S) ==
    IF S = {} THEN 0
    ELSE LET x == CHOOSE y \in S : TRUE IN f[x] + FunSum(f, S \ {x})

Rounds == (SUBSET TokenIds) \ {{}}

PollTasks == poll_sleep + FunSum(poll_round, Rounds)

\* _websocket_loop: the seconds slept before a reconnection attempt, from
\* reconnect_attempts as it is after "self.reconnect_attempts += 1"
wait_time(attempts) ==
    LET delay == reconnect_delay * (2 ^ attempts)
    IN IF delay < 60 THEN delay ELSE 60

\* _websocket_loop from its "while self.running" test to its next await:
\* where the task goes, reconnect_attempts and the mode it leaves, and
\* whether it has created a _rest_polling_loop task
websocket_loop(loops, r, w, attempts, m) ==
    IF ~r
    THEN [loops |-> loops, attempts |-> attempts, mode |-> m, fallback |-> FALSE]
    ELSE IF w # "open"
    THEN IF attempts >= max_reconnect_attempts
         THEN [loops |-> loops, attempts |-> attempts, mode |-> REST_POLLING,
               fallback |-> TRUE]
         ELSE [loops |-> [loops EXCEPT !.backoff = @ + 1], attempts |-> attempts + 1,
               mode |-> m, fallback |-> FALSE]
    ELSE IF loops.receive > 0
    THEN \* receive() while another task awaits it raises RuntimeError
         [loops |-> [loops EXCEPT !.errsleep = @ + 1], attempts |-> attempts,
          mode |-> m, fallback |-> FALSE]
    ELSE [loops |-> [loops EXCEPT !.receive = @ + 1], attempts |-> attempts,
          mode |-> m, fallback |-> FALSE]

\* a polling loop created twice over
rest_polling_loop_twice(ps, pr, r, m, subs) ==
    IF r /\ m = REST_POLLING
    THEN IF subs = {}
         THEN [sleep |-> ps + 2, round |-> pr]
         ELSE [sleep |-> ps, round |-> [pr EXCEPT ![subs] = @ + 2]]
    ELSE [sleep |-> ps, round |-> pr]

\* _rest_polling_loop from its "while" test to its next await: the tasks
\* asleep and the tasks in a round over list(subscribed_markets)
rest_polling_loop(ps, pr, r, m, subs) ==
    IF r /\ m = REST_POLLING
    THEN IF subs = {}
         THEN [sleep |-> ps + 1, round |-> pr]
         ELSE [sleep |-> ps, round |-> [pr EXCEPT ![subs] = @ + 1]]
    ELSE [sleep |-> ps, round |-> pr]

\* the _websocket_loop task goes on after the step: h is websocket_loop(...)
LoopContinues(h) ==
    /\ ws_loops' = h.loops
    /\ reconnect_attempts' = h.attempts
    /\ mode' = h.mode
    /\ ws_downgraded' = (ws_downgraded \/ h.fallback)
    /\ LET p == IF h.fallback
                THEN rest_polling_loop(poll_sleep, poll_round, TRUE, REST_POLLING,
                                       subscribed_markets)
                ELSE [sleep |-> poll_sleep, round |-> poll_round]
       IN /\ poll_sleep' = p.sleep
          /\ poll_round' = p.round

\* the _websocket_loop task ends (break, or the loop test fails)
LoopEnds(loops) ==
    /\ ws_loops' = loops
    /\ UNCHANGED <<reconnect_attempts, mode, ws_downgraded, poll_sleep, poll_round>>

\* start() up to "await self._try_websocket_connection()"
ws_start ==
    /\ ~ws_running
    /\ ws_start_pc = "idle"
    /\ WsTasks + PollTasks < MaxTasks
    /\ ws_running' = TRUE
    /\ ws_session' = "open"
    /\ ws_start_pc' = "connecting"
    /\ ws_op' = "start"
    /\ ws_sent' = NoFrame
    /\ ws_calls' = NoCalls
    /\ UNCHANGED <<mode, ws, reconnect_attempts, subscribed_markets, message_count,
                   latency_samples, ws_loops, poll_sleep, poll_round, ws_downgraded>>
    /\ UNCHANGED notWs

\* start() while self.running is set: the call returns at once
ws_start_running ==
    /\ ws_running
    /\ ws_op' = "start_running"
    /\ ws_sent' = NoFrame
    /\ ws_calls' = NoCalls
    /\ UNCHANGED <<mode, ws, ws_session, ws_running, reconnect_attempts,
                   subscribed_markets, message_count, latency_samples, ws_start_pc,
                   ws_loops, poll_sleep, poll_round, ws_downgraded>>
    /\ UNCHANGED notWs

\* start(): the connection attempt has answered; the task created starts
ws_start_connected ==
    /\ ws_start_pc = "connecting"
    /\ \E ws_success \in (IF ws_session = "open" THEN BOOLEAN ELSE {FALSE}) :
         IF ws_success
         THEN /\ ws' = "open"
              /\ LoopContinues(websocket_loop(ReplaceWs(ws_loops), ws_running, "open",
                                              reconnect_attempts, WEBSOCKET))
         ELSE /\ mode' = REST_POLLING
              /\ LET p == rest_polling_loop(poll_sleep, poll_round, ws_running,
                                            REST_POLLING, subscribed_markets)
                 IN /\ poll_sleep' = p.sleep
                    /\ poll_round' = p.round
              /\ UNCHANGED <<ws, ws_loops, reconnect_attempts, ws_downgraded>>
    /\ ws_start_pc' = "idle"
    /\ ws_op' = "connect"
    /\ ws_sent' = NoFrame
    /\ ws_calls' = NoCalls
    /\ UNCHANGED <<ws_running, ws_session, subscribed_markets, message_count,
                   latency_samples>>
    /\ UNCHANGED notWs

\* a stop() that leaves the mode of a manager without an open socket
stop_result_if_open(r, w, s, m) ==
    [running |-> FALSE,
     ws |-> IF w = "open" THEN "closed" ELSE w,
     session |-> IF s = "open" THEN "closed" ELSE s,
     mode |-> IF w = "open" THEN DISCONNECTED ELSE m]

\* stop(): running, ws, session and mode after the call
stop_result(r, w, s, m) ==
    [running |-> FALSE,
     ws |-> IF w = "open" THEN "closed" ELSE w,
     session |-> IF s = "open" THEN "closed" ELSE s,
     mode |-> DISCONNECTED]

\* stop()
ws_stop ==
    /\ LET s == stop_result(ws_running, ws, ws_session, mode)
       IN /\ ws_running' = s.running
          /\ ws' = s.ws
          /\ ws_session' = s.session
          /\ mode' = s.mode
    /\ ws_loops' = CloseWs(ws_loops)
    /\ ws_downgraded' = FALSE
    /\ ws_op' = "stop"
    /\ ws_sent' = NoFrame
    /\ ws_calls' = NoCalls
    /\ UNCHANGED <<reconnect_attempts, subscribed_markets, message_count,
                   latency_samples, ws_start_pc, poll_sleep, poll_round>>
    /\ UNCHANGED notWs

\* send_json(msg) of subscribe_market and unsubscribe_market: the frame
\* that reaches the channel; a closed socket raises and nothing is sent
send_json(msg) ==
    IF mode = WEBSOCKET /\ ws # "none"
    THEN IF ws = "open" THEN msg ELSE NoFrame
    ELSE NoFrame

\* subscribe_market(token_id)
subscribe_market ==
    /\ \E token_id \in TokenIds :
         IF token_id \in subscribed_markets
         THEN /\ UNCHANGED subscribed_markets
              /\ ws_sent' = NoFrame
         ELSE /\ subscribed_markets' = subscribed_markets \cup {token_id}
              /\ ws_sent' = send_json([type |-> "subscribe", market |-> token_id])
    /\ ws_op' = "subscribe"
    /\ ws_calls' = NoCalls
    /\ UNCHANGED <<mode, ws, ws_session, ws_running, reconnect_attempts, message_count,
                   latency_samples, ws_start_pc, ws_loops, poll_sleep, poll_round,
                   ws_downgraded>>
    /\ UNCHANGED notWs

\* unsubscribe_market(token_id)
unsubscribe_market ==
    /\ \E token_id \in TokenIds :
         IF token_id \notin subscribed_markets
         THEN /\ UNCHANGED subscribed_markets
              /\ ws_sent' = NoFrame
         ELSE /\ subscribed_markets' = subscribed_markets \ {token_id}
              /\ ws_sent' = send_json([type |-> "unsubscribe", market |-> token_id])
    /\ ws_op' = "unsubscribe"
    /\ ws_calls' = NoCalls
    /\ UNCHANGED <<mode, ws, ws_session, ws_running, reconnect_attempts, message_count,
                   latency_samples, ws_start_pc, ws_loops, poll_sleep, poll_round,
                   ws_downgraded>>
    /\ UNCHANGED notWs

\* what a _websocket_loop task does with the message receive() returns:
\* a TEXT frame is handled, CLOSED and ERROR break the loop, any other
\* type (the server's CLOSE frame, which closes the socket) goes round
Received(loops, w) ==
    \/ /\ message_count < MaxMessages
       /\ \E frame \in TextFrames :
            LET hm == handle_message(frame, message_count, latency_samples)
            IN /\ message_count' = hm.message_count
               /\ latency_samples' = hm.latency_samples
               /\ ws_calls' = [src |-> "stream", token_id |-> frame.value.token_id,
                               data |-> frame.value.data, calls |-> hm.calls]
       /\ ws_op' = "text"
       /\ ws' = ws
       /\ LoopContinues(websocket_loop(loops, ws_running, ws, reconnect_attempts, mode))
    \/ /\ ws_op' = "close"
       /\ ws' = w
       /\ ws_calls' = NoCalls
       /\ LoopContinues(websocket_loop(loops, ws_running, w, reconnect_attempts, mode))
       /\ UNCHANGED <<message_count, latency_samples>>
    \/ /\ ws_op' = "closed"
       /\ ws' = w
       /\ ws_calls' = NoCalls
       /\ LoopEnds(loops)
       /\ UNCHANGED <<message_count, latency_samples>>

\* _websocket_loop: receive() on self.ws returns
ws_receive ==
    /\ ws_loops.receive > 0
    /\ Received([ws_loops EXCEPT !.receive = @ - 1], "closed")
    /\ ws_sent' = NoFrame
    /\ UNCHANGED <<ws_session, ws_running, subscribed_markets, ws_start_pc>>
    /\ UNCHANGED notWs

\* _websocket_loop: receive() returns on a socket that self.ws no longer
\* refers to
ws_receive_old ==
    /\ ws_loops.recv_old > 0
    /\ Received([ws_loops EXCEPT !.recv_old = @ - 1], ws)
    /\ ws_sent' = NoFrame
    /\ UNCHANGED <<ws_session, ws_running, subscribed_markets, ws_start_pc>>
    /\ UNCHANGED notWs

\* _websocket_loop: receive() returns on a socket closed meanwhile, with a
\* CLOSED message (break) or a CLOSING one (round the loop)
ws_receive_closed ==
    /\ ws_loops.recv_closed > 0
    /\ LET loops == [ws_loops EXCEPT !.recv_closed = @ - 1]
       IN \/ /\ ws_op' = "closed"
             /\ LoopEnds(loops)
          \/ /\ ws_op' = "close"
             /\ LoopContinues(websocket_loop(loops, ws_running, ws,
                                             reconnect_attempts, mode))
    /\ ws_sent' = NoFrame
    /\ ws_calls' = NoCalls
    /\ UNCHANGED <<ws, ws_session, ws_running, subscribed_markets, message_count,
                   latency_samples, ws_start_pc>>
    /\ UNCHANGED notWs

\* _websocket_loop: the backoff sleep is over and the reconnection attempt
\* has answered; subscribe_market returns at once for the ids re-subscribed
ws_reconnect ==
    /\ ws_loops.backoff > 0
    /\ LET loops == [ws_loops EXCEPT !.backoff = @ - 1]
       IN \E ws_success \in (IF ws_session = "open" THEN BOOLEAN ELSE {FALSE}) :
            IF ws_success
            THEN /\ ws' = "open"
                 /\ LoopContinues(websocket_loop(ReplaceWs(loops), ws_running, "open",
                                                 0, mode))
            ELSE /\ ws' = ws
                 /\ LoopContinues(websocket_loop(loops, ws_running, ws,
                                                 reconnect_attempts, mode))
    /\ ws_op' = "reconnect"
    /\ ws_sent' = NoFrame
    /\ ws_calls' = NoCalls
    /\ UNCHANGED <<ws_session, ws_running, subscribed_markets, message_count,
                   latency_samples, ws_start_pc>>
    /\ UNCHANGED notWs

\* _websocket_loop: the sleep(1) of its exception handler is over
ws_error_sleep ==
    /\ ws_loops.errsleep > 0
    /\ LoopContinues(websocket_loop([ws_loops EXCEPT !.errsleep = @ - 1], ws_running,
                                    ws, reconnect_attempts, mode))
    /\ ws_op' = "retry"
    /\ ws_sent' = NoFrame
    /\ ws_calls' = NoCalls
    /\ UNCHANGED <<ws, ws_session, ws_running, subscribed_markets, message_count,
                   latency_samples, ws_start_pc>>
    /\ UNCHANGED notWs

\* _rest_polling_loop: the sleep(1) between two rounds is over
poll_wake ==
    /\ poll_sleep > 0
    /\ LET p == rest_polling_loop(poll_sleep - 1, poll_round, ws_running, mode,
                                  subscribed_markets)
       IN /\ poll_sleep' = p.sleep
          /\ poll_round' = p.round
    /\ ws_op' = "wake"
    /\ ws_sent' = NoFrame
    /\ ws_calls' = NoCalls
    /\ UNCHANGED <<mode, ws, ws_session, ws_running, reconnect_attempts,
                   subscribed_markets, message_count, latency_samples, ws_start_pc,
                   ws_loops, ws_downgraded>>
    /\ UNCHANGED notWs

\* _rest_polling_loop: one _poll_market_rest(token_id) of the round
poll_request ==
    /\ \E round \in Rounds, token_id \in TokenIds :
         /\ poll_round[round] > 0
         /\ token_id \in round
         /\ \E response \in (IF ws_session = "open" THEN PollResponses
                             ELSE {RequestFailed}) :
              LET pm == poll_market_rest(token_id, response, message_count,
                                         latency_samples)
                  left == round \ {token_id}
              IN /\ pm.message_count <= MaxMessages
                 /\ message_count' = pm.message_count
                 /\ latency_samples' = pm.latency_samples
                 /\ ws_calls' = [src |-> "poll", token_id |-> token_id,
                                 data |-> response.body,
                                 calls |-> pm.calls]
                 /\ IF left = {}
                    THEN /\ poll_sleep' = poll_sleep + 1
                         /\ poll_round' = [poll_round EXCEPT ![round] = @ - 1]
                    ELSE /\ poll_sleep' = poll_sleep
                         /\ poll_round' = [poll_round EXCEPT ![round] = @ - 1,
                                                             ![left] = @ + 1]
    /\ ws_op' = "poll"
    /\ ws_sent' = NoFrame
    /\ UNCHANGED <<mode, ws, ws_session, ws_running, reconnect_attempts,
                   subscribed_markets, ws_start_pc, ws_loops, ws_downgraded>>
    /\ UNCHANGED notWs

InitStream ==
    /\ mode = DISCONNECTED
    /\ ws = "none"
    /\ ws_session = "none"
    /\ ws_running = FALSE
    /\ reconnect_attempts = 0
    /\ subscribed_markets = {}
    /\ message_count = 0
    /\ latency_samples = 0
    /\ ws_start_pc = "idle"
    /\ ws_loops = [receive |-> 0, recv_old |-> 0, recv_closed |-> 0, backoff |-> 0,
                   errsleep |-> 0]
    /\ poll_sleep = 0
    /\ poll_round = [round \in Rounds |-> 0]
    /\ ws_downgraded = FALSE
    /\ ws_op = "init"
    /\ ws_sent = NoFrame
    /\ ws_calls = NoCalls

NextStream ==
    \/ ws_start
    \/ ws_start_running
    \/ ws_start_connected
    \/ ws_stop
    \/ subscribe_market
    \/ unsubscribe_market
    \/ ws_receive
    \/ ws_receive_old
    \/ ws_receive_closed
    \/ ws_reconnect
    \/ ws_error_sleep
    \/ poll_wake
    \/ poll_request

(***************************************************************************)
(*                    WebSocketManager: the claims                         *)
(***************************************************************************)

\* C11: once max_reconnect_attempts reconnection attempts have failed and
\* the mode has become REST_POLLING, then as long as the connection keeps
\* running no push-channel connection attempt is made, the mode does not
\* return to WEBSOCKET, and subscribe_market/unsubscribe_market still add
\* and remove ids of the set the poll loop polls.
C11_DowngradeIsPermanent ==
    [][ (ws_downgraded /\ ws_running /\ ws_running')
          => /\ ws_op' \notin {"reconnect", "connect"}
             /\ mode' # WEBSOCKET ]_vars

\* C12: while the connection is running in WEBSOCKET mode (no start() in
\* progress) some _websocket_loop task is alive, receiving or reconnecting:
\* it never stays in WEBSOCKET mode with no active receive loop.
C12_StreamingHasReceiveLoop ==
    (ws_running /\ mode = WEBSOCKET /\ ws_start_pc = "idle") => WsTasks > 0

\* C13: a message delivered in streaming mode for a token and its data
\* causes the same on_message invocations (their number and the keys of
\* their payload) as the message the polling mode synthesizes for that
\* token and data.
C13_SameInvocationsInBothModes ==
    (ws_calls.src = "stream" /\ ws_calls.token_id \in TokenIds)
      => LET p == poll_market_rest(ws_calls.token_id,
                                   [status |-> 200, body |-> ws_calls.data], 0, 0)
         IN /\ Len(ws_calls.calls) = Len(p.calls)
            /\ \A i \in 1..Len(p.calls) : ws_calls.calls[i].keys = p.calls[i].keys

\* C14: every stop() call, before or after start(), leaves running false
\* and the mode DISCONNECTED, and a stop() that follows a stop() changes no
\* state.
C14_StopIdempotent ==
    [][ (ws_op' = "stop")
          => /\ ~ws_running'
             /\ mode' = DISCONNECTED
             /\ stop_result(ws_running', ws', ws_session', mode')
                  = [running |-> ws_running', ws |-> ws', session |-> ws_session',
                     mode |-> mode']
             /\ (ws_op = "stop" => UNCHANGED wsVars) ]_vars

C14_Witness ==
    /\ ws_op = "stop"
    /\ ws = "closed"
    /\ ws_session = "closed"
    /\ WsTasks + PollTasks > 0

\* C15: subscribe_market(id) leaves id in the interest set and
\* unsubscribe_market(id) leaves it out; in WEBSOCKET mode a frame is sent
\* exactly when the call changes the set.
C15_FrameSentIffSetChanges ==
    [][ /\ (ws_op' = "subscribe" /\ ws_sent' # NoFrame)
             => ws_sent'.market \in subscribed_markets'
        /\ (subscribed_markets' # subscribed_markets /\ mode = WEBSOCKET)
             => ws_sent' # NoFrame
        /\ (ws_sent' # NoFrame)
             => (subscribed_markets' # subscribed_markets /\ mode = WEBSOCKET) ]_vars

\* C25: after a successful reconnection of the push channel, a subscribe
\* frame is sent on the new channel for the ids in the interest set.
C25_ResubscribedAfterReconnect ==
    [][ (ws_op' = "reconnect" /\ ws # "open" /\ ws' = "open"
            /\ subscribed_markets # {})
          => ws_sent' # NoFrame ]_vars

\* C39: for any sequence of start() and stop() calls, at most one delivery
\* loop of a connection is active at a time, and at most one scanning loop
\* of a scanner: a loop started before a stop() does not resume work after
\* a later start().  The loops counted for a running connection are the
\* tasks that go on working when they wake: the _websocket_loop tasks
\* waiting on the current socket, in backoff or in the sleep of the
\* exception handler, and in polling mode the _rest_polling_loop tasks;
\* for a running scanner, every _scanning_loop task.
C39_AtMostOneLoop ==
    /\ ws_running =>
          ws_loops.receive + ws_loops.backoff + ws_loops.errsleep
            + (IF mode = REST_POLLING THEN PollTasks ELSE 0) <= 1
    /\ running => Loops <= 1

\* C38: in polling mode, once unsubscribe_market(id) has returned, no pull
\* request is issued for id and no message for id is delivered to the
\* callback, even when the unsubscribe happens while a poll round is in
\* progress: every request of a running connection in polling mode is for
\* an id that is in subscribed_markets when the request is issued.
C38_NoPollAfterUnsubscribe ==
    [][ (ws_op' = "poll" /\ ws_running /\ mode = REST_POLLING) =>
            ws_calls'.token_id \in subscribed_markets ]_vars

\* C34: the delay before a reconnection attempt is
\* min(reconnect_delay * 2^attempt, 60) seconds, where attempt is the number
\* of consecutive failed reconnection attempts made so far (0 for the first
\* retry after a disconnect); the delay never exceeds 60 s and the attempt
\* counter is 0 again after a successful reconnection.  A _websocket_loop
\* task enters its backoff sleep in the steps that raise
\* reconnect_attempts, which before the step is the number of attempts
\* made since the last success.
C34_BackoffDoublesFromBaseDelay ==
    [][ /\ (reconnect_attempts' = reconnect_attempts + 1) =>
              /\ wait_time(reconnect_attempts')
                    = (IF reconnect_delay * (2 ^ reconnect_attempts) < 60
                       THEN reconnect_delay * (2 ^ reconnect_attempts) ELSE 60)
              /\ wait_time(reconnect_attempts') <= 60
        /\ (ws_op' = "reconnect" /\ ws' = "open" /\ ws # "open") =>
              reconnect_attempts' = 0 ]_vars

\* C32: when start() returns, the mode is WEBSOCKET if the push connection
\* succeeded and REST_POLLING otherwise, and the call has started exactly
\* one delivery loop, a receive loop in the first case and a poll loop in
\* the second (the poll loop ends at its first test when stop() was called
\* during the connection attempt); a start() issued while the connection
\* is running starts no loop and leaves the mode as it is.
C32_StartSetsModeAndOneLoop ==
    [][ /\ (ws_op' = "connect") =>
              \/ /\ ws' = "open"
                 /\ mode' = WEBSOCKET
                 /\ WsTasks' = WsTasks + 1
                 /\ PollTasks' = PollTasks
              \/ /\ ws' = ws
                 /\ mode' = REST_POLLING
                 /\ WsTasks' = WsTasks
                 /\ PollTasks' = PollTasks + (IF ws_running THEN 1 ELSE 0)
        /\ (ws_op' = "start_running") =>
              /\ mode' = mode
              /\ WsTasks' = WsTasks
              /\ PollTasks' = PollTasks ]_vars

\* C32 witness: start() is called again on a connection that a first
\* start() left in polling mode with its poll loop.
C32_Witness ==
    /\ ws_op = "start_running"
    /\ ws_running
    /\ ws_start_pc = "idle"
    /\ mode = REST_POLLING
    /\ ~ws_downgraded
    /\ PollTasks = 1
    /\ WsTasks = 0

(***************************************************************************)
(*                           EventLoopManager                              *)
(***************************************************************************)

\* event types, handlers, payloads, shutdown callbacks and coroutines
EventTypes == {"market_update", "new_market"}
Handlers == {"h1", "h2"}
Payloads == {"p1", "p2"}
Callbacks == {"c1", "c2"}
TaskIds == {"k1", "k2"}
\* handlers and shutdown callbacks that raise
Raising == {"h2", "c1"}
\* longest list of handlers of an event type, and of shutdown callbacks
MaxHandlers == 2
MaxCallbacks == 2

\* self.event_handlers.get(event_type, []) with every type's handlers
handlers_of_any(handlers, event_type) ==
    handlers["market_update"] \o handlers["new_market"]

\* self.event_handlers.get(event_type, [])
handlers_of(handlers, event_type) == handlers[event_type]

\* a task is done
Done(status) == status \in {"finished", "cancelled"}

\* self.tasks without a task that is done (its done callback removes it)
Untrack(tracked, task) == SelectSeq(tracked, LAMBDA t : t # task)

\* register_event_handler(event_type, handler)
register_event_handler ==
    /\ \E event_type \in EventTypes, handler \in Handlers :
         /\ Len(event_handlers[event_type]) < MaxHandlers
         /\ event_handlers' = [event_handlers EXCEPT ![event_type] = Append(@, handler)]
    /\ ev_op' = "register_event_handler"
    /\ UNCHANGED <<ev_running, ev_tasks, ev_tracked, shutdown_callbacks, run_pc, sh_pc,
                   sh_next, sh_wait, sh_log, emit_pc, emit_type, emit_data,
                   emit_snapshot, emit_log, emit_done>>
    /\ UNCHANGED notEv

\* register_shutdown_callback(callback)
register_shutdown_callback ==
    /\ Len(shutdown_callbacks) < MaxCallbacks
    /\ \E callback \in Callbacks :
         shutdown_callbacks' = Append(shutdown_callbacks, callback)
    /\ ev_op' = "register_shutdown_callback"
    /\ UNCHANGED <<ev_running, ev_tasks, ev_tracked, event_handlers, run_pc, sh_pc,
                   sh_next, sh_wait, sh_log, emit_pc, emit_type, emit_data,
                   emit_snapshot, emit_log, emit_done>>
    /\ UNCHANGED notEv

\* emit_event(event_type, event_data) up to its gather: the coroutines of
\* the handlers are created and scheduled
emit_event ==
    /\ emit_pc = "idle"
    /\ \E event_type \in EventTypes, event_data \in Payloads :
         LET handlers == handlers_of(event_handlers, event_type)
         IN /\ emit_type' = event_type
            /\ emit_data' = event_data
            /\ emit_snapshot' = event_handlers[event_type]
            /\ emit_log' = [i \in 1..Len(handlers) |->
                               [handler |-> handlers[i], event_data |-> event_data]]
            /\ emit_done' = {}
            /\ IF handlers = <<>>
               THEN emit_pc' = "idle" /\ ev_op' = "emit_returned"
               ELSE emit_pc' = "gather" /\ ev_op' = "emit_event"
    /\ UNCHANGED <<ev_running, ev_tasks, ev_tracked, event_handlers, shutdown_callbacks,
                   run_pc, sh_pc, sh_next, sh_wait, sh_log>>
    /\ UNCHANGED notEv

\* a handler invoked by emit_event finishes, returning or raising
handler_finishes ==
    /\ emit_pc = "gather"
    /\ \E i \in (1..Len(emit_log)) \ emit_done : emit_done' = emit_done \cup {i}
    /\ ev_op' = "handler"
    /\ UNCHANGED <<ev_running, ev_tasks, ev_tracked, event_handlers, shutdown_callbacks,
                   run_pc, sh_pc, sh_next, sh_wait, sh_log, emit_pc, emit_type,
                   emit_data, emit_snapshot, emit_log>>
    /\ UNCHANGED notEv

\* gather(*tasks, return_exceptions=True) is over: every handler has
\* finished; the exceptions are results
gather_done(log, done) == done = 1..Len(log)

\* emit_event returns
emit_returns ==
    /\ emit_pc = "gather"
    /\ gather_done(emit_log, emit_done)
    /\ emit_pc' = "idle"
    /\ ev_op' = "emit_returned"
    /\ UNCHANGED <<ev_running, ev_tasks, ev_tracked, event_handlers, shutdown_callbacks,
                   run_pc, sh_pc, sh_next, sh_wait, sh_log, emit_type, emit_data,
                   emit_snapshot, emit_log, emit_done>>
    /\ UNCHANGED notEv

\* create_task(coro, name)
create_task ==
    /\ \E task \in TaskIds :
         /\ ev_tasks[task] = "none"
         /\ ev_tasks' = [ev_tasks EXCEPT ![task] = "pending"]
         /\ ev_tracked' = Append(ev_tracked, task)
    /\ ev_op' = "create_task"
    /\ UNCHANGED <<ev_running, event_handlers, shutdown_callbacks, run_pc, sh_pc,
                   sh_next, sh_wait, sh_log, emit_pc, emit_type, emit_data,
                   emit_snapshot, emit_log, emit_done>>
    /\ UNCHANGED notEv

\* a task ends: its coroutine returns, or the cancellation requested is
\* delivered; the done callback removes it from self.tasks
task_done ==
    /\ \E task \in TaskIds :
         /\ ev_tasks[task] \in {"pending", "cancelling"}
         /\ ev_tasks' = [ev_tasks EXCEPT ![task] =
                            IF @ = "cancelling" THEN "cancelled" ELSE "finished"]
         /\ ev_tracked' = Untrack(ev_tracked, task)
    /\ ev_op' = "task_done"
    /\ UNCHANGED <<ev_running, event_handlers, shutdown_callbacks, run_pc, sh_pc,
                   sh_next, sh_wait, sh_log, emit_pc, emit_type, emit_data,
                   emit_snapshot, emit_log, emit_done>>
    /\ UNCHANGED notEv

\* run() up to the sleep of its loop
run ==
    /\ ~ev_running
    /\ run_pc = "idle"
    /\ ev_running' = TRUE
    /\ run_pc' = "loop"
    /\ ev_op' = "run"
    /\ UNCHANGED <<ev_tasks, ev_tracked, event_handlers, shutdown_callbacks, sh_pc,
                   sh_next, sh_wait, sh_log, emit_pc, emit_type, emit_data,
                   emit_snapshot, emit_log, emit_done>>
    /\ UNCHANGED notEv

\* run(): a sleep(1) of the loop is over and running is false; the
\* shutdown() of its finally clause returns at once
run_ends ==
    /\ run_pc = "loop"
    /\ ~ev_running
    /\ run_pc' = "idle"
    /\ ev_op' = "shutdown_returned"
    /\ UNCHANGED <<ev_running, ev_tasks, ev_tracked, event_handlers,
                   shutdown_callbacks, sh_pc, sh_next, sh_wait, sh_log, emit_pc,
                   emit_type, emit_data, emit_snapshot, emit_log, emit_done>>
    /\ UNCHANGED notEv

\* shutdown() from "Cancel all running tasks" on: every tracked task that
\* is not done is cancelled, then the call waits for the tracked tasks or,
\* when there is none, returns
CancelTasks ==
    /\ ev_tasks' = [task \in TaskIds |->
                       IF ev_tasks[task] = "pending"
                          /\ \E i \in 1..Len(ev_tracked) : ev_tracked[i] = task
                       THEN "cancelling" ELSE ev_tasks[task]]
    /\ IF ev_tracked # <<>>
       THEN /\ sh_pc' = "gather"
            /\ sh_wait' = {ev_tracked[i] : i \in 1..Len(ev_tracked)}
            /\ ev_op' = "shutdown"
       ELSE /\ sh_pc' = "idle"
            /\ sh_wait' = {}
            /\ ev_op' = "shutdown_returned"
    /\ UNCHANGED ev_tracked

\* shutdown() up to its first await
shutdown ==
    /\ sh_pc = "idle"
    /\ IF ~ev_running
       THEN /\ ev_op' = "shutdown_returned"
            /\ UNCHANGED <<ev_running, ev_tasks, ev_tracked, sh_pc, sh_next, sh_wait,
                           sh_log>>
       ELSE /\ ev_running' = FALSE
            /\ IF shutdown_callbacks # <<>>
               THEN /\ sh_pc' = "callback"
                    /\ sh_next' = 1
                    /\ sh_log' = <<shutdown_callbacks[1]>>
                    /\ ev_op' = "shutdown"
                    /\ UNCHANGED <<ev_tasks, ev_tracked, sh_wait>>
               ELSE /\ sh_log' = <<>>
                    /\ CancelTasks
                    /\ UNCHANGED sh_next
    /\ UNCHANGED <<event_handlers, shutdown_callbacks, run_pc, emit_pc, emit_type,
                   emit_data, emit_snapshot, emit_log, emit_done>>
    /\ UNCHANGED notEv

\* shutdown(): the callback awaited returns or raises; the next one is
\* called, or the tasks are cancelled
shutdown_callback ==
    /\ sh_pc = "callback"
    /\ IF sh_next < Len(shutdown_callbacks)
       THEN /\ sh_next' = sh_next + 1
            /\ sh_log' = Append(sh_log, shutdown_callbacks[sh_next + 1])
            /\ ev_op' = "shutdown"
            /\ UNCHANGED <<ev_tasks, ev_tracked, sh_pc, sh_wait>>
       ELSE /\ CancelTasks
            /\ UNCHANGED <<sh_next, sh_log>>
    /\ UNCHANGED <<ev_running, event_handlers, shutdown_callbacks, run_pc, emit_pc,
                   emit_type, emit_data, emit_snapshot, emit_log, emit_done>>
    /\ UNCHANGED notEv

\* shutdown(): the tasks it waits for are done, it returns
shutdown_gathered ==
    /\ sh_pc = "gather"
    /\ \A task \in sh_wait : Done(ev_tasks[task])
    /\ sh_pc' = "idle"
    /\ sh_wait' = {}
    /\ ev_op' = "shutdown_returned"
    /\ UNCHANGED <<ev_running, ev_tasks, ev_tracked, event_handlers,
                   shutdown_callbacks, run_pc, sh_next, sh_log, emit_pc, emit_type,
                   emit_data, emit_snapshot, emit_log, emit_done>>
    /\ UNCHANGED notEv

InitEvents ==
    /\ ev_running = FALSE
    /\ ev_tasks = [task \in TaskIds |-> "none"]
    /\ ev_tracked = <<>>
    /\ event_handlers = [event_type \in EventTypes |-> <<>>]
    /\ shutdown_callbacks = <<>>
    /\ run_pc = "idle"
    /\ sh_pc = "idle"
    /\ sh_next = 0
    /\ sh_wait = {}
    /\ sh_log = <<>>
    /\ emit_pc = "idle"
    /\ emit_type = "none"
    /\ emit_data = "none"
    /\ emit_snapshot = <<>>
    /\ emit_log = <<>>
    /\ emit_done = {}
    /\ ev_op = "init"

\* the event side of the manager
NextEvents ==
    \/ register_event_handler
    \/ emit_event
    \/ handler_finishes
    \/ emit_returns

\* the task side of the manager
NextTasks ==
    \/ register_shutdown_callback
    \/ create_task
    \/ task_done
    \/ run
    \/ run_ends
    \/ shutdown
    \/ shutdown_callback
    \/ shutdown_gathered

(***************************************************************************)
(*                    EventLoopManager: the claims                         *)
(***************************************************************************)

\* C16: once a call to shutdown() returns, every registered shutdown
\* callback has been invoked and every task created through create_task is
\* finished or cancelled.
C16_ShutdownCompletesEverything ==
    (ev_op = "shutdown_returned")
      => /\ \A i \in 1..Len(shutdown_callbacks) :
              \E j \in 1..Len(sh_log) : sh_log[j] = shutdown_callbacks[i]
         /\ \A task \in TaskIds : ev_tasks[task] = "none" \/ Done(ev_tasks[task])

\* C29: during shutdown the registered callbacks are invoked one at a time
\* in registration order, a callback that raises does not prevent the later
\* ones from running, every callback has finished before any task is
\* cancelled, and across repeated or overlapping shutdown() calls each
\* callback is invoked at most once: a callback that is invoked has not
\* been invoked before.
C29_CallbacksOnceInOrder ==
    [][ /\ \A j \in 1..Len(sh_log') : sh_log'[j] = shutdown_callbacks'[j]
        /\ (\E task \in TaskIds : ev_tasks[task] # "cancelling"
                                   /\ ev_tasks'[task] = "cancelling")
              => Len(sh_log') = Len(shutdown_callbacks')
        /\ (sh_log' # sh_log /\ sh_log' # <<>>)
              => \A j \in 1..Len(sh_log) : sh_log[j] # sh_log'[Len(sh_log')] ]_vars

\* C17: when emit_event(type, data) returns, every handler registered for
\* that type when it was called has been invoked exactly once with the
\* payload, no other handler has been invoked, and every invoked handler
\* has finished, those that raise included.
C17_EmitInvokesEachHandlerOnce ==
    (ev_op = "emit_returned")
      => /\ Len(emit_log) = Len(emit_snapshot)
         /\ \A i \in 1..Len(emit_log) :
              /\ emit_log[i].handler = emit_snapshot[i]
              /\ emit_log[i].event_data = emit_data
         /\ emit_done = 1..Len(emit_log)

C17_Witness ==
    /\ ev_op = "emit_returned"
    /\ Len(emit_log) = 2
    /\ emit_log[1].handler \in Raising
    /\ emit_log[2].handler \notin Raising
    /\ \E event_type \in EventTypes \ {emit_type} : event_handlers[event_type] # <<>>

(***************************************************************************)
(*                         StrategyOrchestrator                            *)
(* run_cycle() is synchronous: it has no await and is one step.  What a    *)
(* strategy's scan_opportunities, execute_trade and monitor_positions do   *)
(* in a cycle is an input of the cycle.                                    *)
(***************************************************************************)

\* config.STRATEGY_*_ENABLED: at most MaxStrategies of the four flags are set
MaxStrategies == 2
\* total_capital passed to the constructor
Capitals == {0, 100}

\* config.CAPITAL_ALLOCATION, in percent
CAPITAL_ALLOCATION ==
    [maker |-> 40, probability |-> 30, latency |-> 20, ml_pattern |-> 10]

\* the words _get_strategy_key looks for, and the class names and name
\* attributes it looks in
Occurrences ==
    ("MakerStrategy" :> {"Maker"}) @@
    ("ProbabilityScalpingStrategy" :> {"Probability"}) @@
    ("LatencyArbitrageStrategy" :> {"Latency"}) @@
    ("MLPatternStrategy" :> {"ML", "Pattern"}) @@
    ("Probability Scalping" :> {"Probability"}) @@
    ("Latency Arbitrage" :> {"Latency"}) @@
    ("ML Pattern Recognition" :> {"ML", "Pattern"}) @@
    ("" :> {})
\* word in text
In(word, text) == word \in Occurrences[text]

\* The strategy objects _initialize_strategies creates, in its order.  The
\* legacy MakerStrategy has no name and no enabled attribute and no
\* scan_opportunities and execute_trade methods; the others derive from
\* BaseStrategy.
BaseAttrs == {"name", "enabled", "scan_opportunities", "execute_trade",
              "monitor_positions", "cancel_all_orders"}
MakerStrategy ==
    [flag |-> "STRATEGY_MAKER_ENABLED", class_name |-> "MakerStrategy",
     name |-> "", enabled |-> TRUE,
     attrs |-> {"monitor_positions", "cancel_all_orders"}]
ProbabilityScalpingStrategy ==
    [flag |-> "STRATEGY_PROBABILITY_ENABLED",
     class_name |-> "ProbabilityScalpingStrategy",
     name |-> "Probability Scalping", enabled |-> TRUE, attrs |-> BaseAttrs]
LatencyArbitrageStrategy ==
    [flag |-> "STRATEGY_LATENCY_ENABLED",
     class_name |-> "LatencyArbitrageStrategy",
     name |-> "Latency Arbitrage", enabled |-> TRUE,
     attrs |-> BaseAttrs \cup {"stop"}]
MLPatternStrategy ==
    [flag |-> "STRATEGY_ML_ENABLED", class_name |-> "MLPatternStrategy",
     name |-> "ML Pattern Recognition", enabled |-> TRUE, attrs |-> BaseAttrs]
InitializationOrder ==
    <<MakerStrategy, ProbabilityScalpingStrategy, LatencyArbitrageStrategy,
      MLPatternStrategy>>
Flags == {InitializationOrder[i].flag : i \in 1..Len(InitializationOrder)}

\* getattr(strategy, 'enabled', True)
is_enabled(strategy) == ("enabled" \in strategy.attrs) => strategy.enabled

\* _get_strategy_key(strategy)
get_strategy_key(strategy) ==
    LET class_name == strategy.class_name
        name == strategy.name
    IN IF In("Maker", class_name) THEN "maker"
       ELSE IF In("Probability", class_name) THEN "probability"
       ELSE IF In("Latency", class_name) THEN "latency"
       ELSE IF In("ML", class_name) \/ In("Pattern", class_name) THEN "ml_pattern"
       ELSE IF "name" \notin strategy.attrs THEN "maker"
       ELSE IF In("Maker", name) THEN "maker"
       ELSE IF In("Probability", name) THEN "probability"
       ELSE IF In("Latency", name) THEN "latency"
       ELSE IF In("ML", name) \/ In("Pattern", name) THEN "ml_pattern"
       ELSE "maker"

\* _initialize_strategies(): the strategies appended when the flags of set
\* are set (a strategy whose constructor raises is one whose flag is off)
initialize_strategies(set) ==
    SelectSeq(InitializationOrder, LAMBDA s : s.flag \in set)

\* _allocate_capital(): capital_allocated after the call, in cents
allocate_capital(strats, total) ==
    LET keys == {get_strategy_key(strats[i]) : i \in 1..Len(strats)}
                    \cap DOMAIN CAPITAL_ALLOCATION
    IN [k \in keys |-> total * CAPITAL_ALLOCATION[k]]

\* capital_allocated.get(strategy_key, 0)
allocated(ca, strategy_key) ==
    IF strategy_key \in DOMAIN ca THEN ca[strategy_key] ELSE 0

\* What one strategy does in one cycle: scan_opportunities returns a signal
\* or None or raises (it raises AttributeError where the method is missing),
\* execute_trade returns a position id or None or raises, monitor_positions
\* returns or raises.
StrategyBehaviours(strategy) ==
    LET scans == IF "scan_opportunities" \in strategy.attrs
                 THEN {"signal", "none", "raise"} ELSE {"raise"}
        executes(scan) == IF scan = "signal"
                          THEN {"position", "none", "raise"} ELSE {"unused"}
    IN UNION {[scan : {sc}, execute : executes(sc), monitor : {"returns", "raise"}]
                 : sc \in scans}
Behaviours(strats) ==
    {b \in [1..Len(strats) -> UNION {StrategyBehaviours(strats[i]) : i \in 1..Len(strats)}] :
        \A i \in 1..Len(strats) : b[i] \in StrategyBehaviours(strats[i])}

Call(op, i, result) == [op |-> op, strategy |-> i, result |-> result]
Indexes(strats) == [i \in 1..Len(strats) |-> i]
EnabledIndexes(strats) ==
    SelectSeq(Indexes(strats), LAMBDA i : is_enabled(strats[i]))

\* a scan phase that skips no strategy
scan_phase_every(strats, beh) ==
    [n \in 1..Len(strats) |-> Call("scan_opportunities", n, beh[n].scan)]

\* Phase 1: the scan calls, in order
scan_phase(strats, beh) ==
    LET en == EnabledIndexes(strats)
    IN [n \in 1..Len(en) |-> Call("scan_opportunities", en[n], beh[en[n]].scan)]

\* opportunities in which every signal is entered twice
opportunities_of_repeated(strats, beh) ==
    SelectSeq(EnabledIndexes(strats), LAMBDA i : beh[i].scan = "signal")
    \o SelectSeq(EnabledIndexes(strats), LAMBDA i : beh[i].scan = "signal")

\* opportunities after phase 1, as indexes into self.strategies
opportunities_of(strats, beh) ==
    SelectSeq(EnabledIndexes(strats), LAMBDA i : beh[i].scan = "signal")

priority_order == <<"latency", "probability", "maker", "ml_pattern">>

\* Phase 2: the signals execute_trade is called for when no call raises, in
\* order: for each key of priority_order, the opportunities of that key that
\* have capital.
RECURSIVE execute_from(_, _, _, _)
execute_from(k, strats, opps, ca) ==
    IF k > Len(priority_order) THEN <<>>
    ELSE SelectSeq(opps, LAMBDA i :
                /\ get_strategy_key(strats[i]) = priority_order[k]
                /\ allocated(ca, get_strategy_key(strats[i])) > 0)
         \o execute_from(k + 1, strats, opps, ca)

\* the signals that have capital, in the order of the scan phase
execute_order_as_found(strats, opps, ca) ==
    SelectSeq(opps, LAMBDA i : allocated(ca, get_strategy_key(strats[i])) > 0)

execute_order(strats, opps, ca) == execute_from(1, strats, opps, ca)

\* Phase 2: the execute_trade calls made, in order.  A call that raises ends
\* the phase: the exception leaves both loops for the handler of the cycle.
execute_phase(strats, opps, beh, ca) ==
    LET order == execute_order(strats, opps, ca)
        raising == {n \in 1..Len(order) : beh[order[n]].execute = "raise"}
        last == IF raising = {} THEN Len(order)
                ELSE CHOOSE n \in raising : \A m \in raising : n <= m
    IN [n \in 1..last |-> Call("execute_trade", order[n], beh[order[n]].execute)]

\* an execute_trade call of the phase raised
cycle_aborted(calls) ==
    \E n \in 1..Len(calls) : calls[n].result = "raise"

\* Phase 3: the monitor calls, in order
monitor_phase(strats, beh) ==
    LET en == EnabledIndexes(strats)
    IN [n \in 1..Len(en) |-> Call("monitor_positions", en[n], beh[en[n]].monitor)]

\* number of calls of a sequence with the given result
Count(calls, result) ==
    Cardinality({n \in 1..Len(calls) : calls[n].result = result})

\* __init__(clob_client, total_capital)
orchestrator_init ==
    /\ orch_pc = "new"
    /\ \E set \in SUBSET Flags, total \in Capitals :
         /\ Cardinality(set) <= MaxStrategies
         /\ strategies' = initialize_strategies(set)
         /\ total_capital' = total
         /\ capital_allocated' = allocate_capital(initialize_strategies(set), total)
    /\ orch_pc' = "ready"
    /\ orch_op' = "init"
    /\ UNCHANGED <<cycle_log, cycle_stats>>
    /\ UNCHANGED notOr

\* BaseStrategy.enable() and disable() of a registered strategy
set_enabled ==
    /\ orch_pc = "ready"
    /\ \E i \in 1..Len(strategies), e \in BOOLEAN :
         /\ "enabled" \in strategies[i].attrs
         /\ strategies[i].enabled # e
         /\ strategies' = [strategies EXCEPT ![i].enabled = e]
    /\ orch_op' = "set_enabled"
    /\ UNCHANGED <<capital_allocated, total_capital, orch_pc, cycle_log, cycle_stats>>
    /\ UNCHANGED notOr

\* run_cycle(dry_run)
run_cycle ==
    /\ orch_pc = "ready"
    /\ \E beh \in Behaviours(strategies) :
         LET scans == scan_phase(strategies, beh)
             opps == opportunities_of(strategies, beh)
             executes == execute_phase(strategies, opps, beh, capital_allocated)
             monitors == IF cycle_aborted(executes) THEN <<>>
                         ELSE monitor_phase(strategies, beh)
         IN /\ cycle_log' = scans \o executes \o monitors
            /\ cycle_stats' = [opportunities_found |-> Len(opps),
                               trades_executed |-> Count(executes, "position"),
                               strategies_active |-> Len(scans)]
    /\ orch_op' = "run_cycle"
    /\ UNCHANGED <<strategies, capital_allocated, total_capital, orch_pc>>
    /\ UNCHANGED notOr

\* What one strategy does in one stop_all(): stop(), where the strategy has
\* it, and cancel_all_orders() return or raise.
StopBehaviours(strategy) ==
    [stop : IF "stop" \in strategy.attrs THEN {"returns", "raise"} ELSE {"unused"},
     cancel_all_orders : {"returns", "raise"}]
StopAllBehaviours(strats) ==
    {b \in [1..Len(strats) -> UNION {StopBehaviours(strats[i]) : i \in 1..Len(strats)}] :
        \A i \in 1..Len(strats) : b[i] \in StopBehaviours(strats[i])}

\* stop_all(): the body of the try block of strategy i.  An exception of
\* stop() leaves the block before cancel_all_orders is called.
stop_strategy(i, strategy, b) ==
    (IF "stop" \in strategy.attrs THEN <<Call("stop", i, b.stop)>> ELSE <<>>)
    \o (IF b.stop = "raise" THEN <<>>
        ELSE <<Call("cancel_all_orders", i, b.cancel_all_orders)>>)

\* stop_all(): the calls made for the strategies from index i on
RECURSIVE stop_from(_, _, _)
stop_from(i, strats, beh) ==
    IF i > Len(strats) THEN <<>>
    ELSE stop_strategy(i, strats[i], beh[i]) \o stop_from(i + 1, strats, beh)

\* stop_all(dry_run)
stop_all ==
    /\ orch_pc = "ready"
    /\ \E beh \in StopAllBehaviours(strategies) :
         cycle_log' = stop_from(1, strategies, beh)
    /\ orch_op' = "stop_all"
    /\ UNCHANGED <<strategies, capital_allocated, total_capital, orch_pc, cycle_stats>>
    /\ UNCHANGED notOr

InitOrch ==
    /\ strategies = <<>>
    /\ capital_allocated = << >>
    /\ total_capital = 0
    /\ orch_pc = "new"
    /\ cycle_log = <<>>
    /\ cycle_stats = [opportunities_found |-> 0, trades_executed |-> 0,
                      strategies_active |-> 0]
    /\ orch_op = "none"

NextOrch ==
    \/ orchestrator_init
    \/ set_enabled
    \/ run_cycle
    \/ stop_all

(***************************************************************************)
(*                   StrategyOrchestrator: the claims                      *)
(***************************************************************************)

\* the calls of the latest cycle with the given operation, as positions in
\* cycle_log
CallsOf(op) == {n \in 1..Len(cycle_log) : cycle_log[n].op = op}

\* C18: in the execute phase of a cycle, signals are executed in the order
\* latency, probability, maker, ml_pattern: when execute_trade is invoked
\* for a signal, it has already been invoked in this cycle for every signal
\* found by a strategy of a category that comes before in that order and
\* has capital, whatever the order in which the strategies were registered
\* and scanned.
C18_ExecutedInPriorityOrder ==
    (orch_op = "run_cycle") =>
        LET rank == [latency |-> 1, probability |-> 2, maker |-> 3, ml_pattern |-> 4]
            key(n) == get_strategy_key(strategies[cycle_log[n].strategy])
        IN \A e \in CallsOf("execute_trade"), s \in CallsOf("scan_opportunities") :
              ( /\ cycle_log[s].result = "signal"
                /\ rank[key(s)] < rank[key(e)]
                /\ allocated(capital_allocated, key(s)) > 0 )
              => \E h \in CallsOf("execute_trade") :
                    /\ h < e
                    /\ cycle_log[h].strategy = cycle_log[s].strategy

\* C18 witness: a cycle in which a probability strategy, registered and
\* scanned first, and a latency strategy both found a signal and both
\* signals were executed.
C18_Witness ==
    /\ orch_op = "run_cycle"
    /\ Len(strategies) = 2
    /\ get_strategy_key(strategies[1]) = "probability"
    /\ get_strategy_key(strategies[2]) = "latency"
    /\ Len(cycle_log) = 6
    /\ cycle_log[3] = Call("execute_trade", 2, "position")
    /\ cycle_log[4] = Call("execute_trade", 1, "position")

\* C30: within one run_cycle no execute_trade call happens before every
\* enabled strategy has been scanned and no monitor_positions call happens
\* before every execution of the cycle has finished (each call of the cycle
\* returns or raises before the next is made, so the order of the calls is
\* the order of the phases); each enabled strategy is scanned exactly once
\* and a disabled one is not scanned; the counters returned satisfy
\* trades_executed <= opportunities_found <= strategies_active.
C30_PhasesSequentialAndCounted ==
    (orch_op = "run_cycle") =>
        /\ \A n \in CallsOf("execute_trade") :
              /\ \A m \in CallsOf("scan_opportunities") : m < n
              /\ \A i \in 1..Len(strategies) : is_enabled(strategies[i]) =>
                    \E m \in CallsOf("scan_opportunities") :
                        m < n /\ cycle_log[m].strategy = i
        /\ \A n \in CallsOf("monitor_positions") :
              \A m \in CallsOf("scan_opportunities") \cup CallsOf("execute_trade") :
                  m < n
        /\ \A i \in 1..Len(strategies) :
              Cardinality({m \in CallsOf("scan_opportunities") :
                              cycle_log[m].strategy = i})
                  = IF is_enabled(strategies[i]) THEN 1 ELSE 0
        /\ cycle_stats.trades_executed <= cycle_stats.opportunities_found
        /\ cycle_stats.opportunities_found <= cycle_stats.strategies_active

\* C30 witness: a cycle over an enabled and a disabled strategy in which the
\* enabled one was scanned, its signal executed and its positions monitored.
C30_Witness ==
    /\ orch_op = "run_cycle"
    /\ Len(strategies) = 2
    /\ \E i \in 1..2 : ~is_enabled(strategies[i])
    /\ CallsOf("scan_opportunities") = {1}
    /\ CallsOf("execute_trade") = {2}
    /\ CallsOf("monitor_positions") = {3}
    /\ cycle_stats.trades_executed = 1
    /\ cycle_stats.strategies_active = 1

\* C31: execute_trade is invoked for a signal only if the allocation key of
\* its strategy has a strictly positive entry in capital_allocated; each
\* signal found in the scan phase is executed at most once in the cycle;
\* run_cycle leaves capital_allocated unchanged, and the sum of the amounts
\* allocated does not exceed total_capital (amounts are in hundredths of the
\* unit of total_capital).
C31_ExecutesOnlyWithCapital ==
    [][ (orch_op' = "run_cycle") =>
          LET log == cycle_log'
              executed == {n \in 1..Len(log) : log[n].op = "execute_trade"}
              ca == capital_allocated'
          IN /\ \A n \in executed :
                   LET key == get_strategy_key(strategies'[log[n].strategy])
                   IN /\ key \in DOMAIN ca
                      /\ ca[key] > 0
                      /\ \E m \in 1..(n - 1) :
                            log[m] = Call("scan_opportunities", log[n].strategy, "signal")
                      /\ \A m \in executed : log[m].strategy = log[n].strategy => m = n
             /\ ca = capital_allocated
             /\ allocated(ca, "maker") + allocated(ca, "probability")
                  + allocated(ca, "latency") + allocated(ca, "ml_pattern")
                    <= total_capital' * 100 ]_vars

\* C31 witness: a cycle over two strategies that both found a signal, with
\* capital, in which both signals were executed.
C31_Witness ==
    /\ orch_op = "run_cycle"
    /\ total_capital = 100
    /\ Cardinality(DOMAIN capital_allocated) = 2
    /\ Cardinality(CallsOf("execute_trade")) = 2
    /\ cycle_stats.opportunities_found = 2

\* C21: stop_all() invokes cancel_all_orders on every strategy, even when
\* the stop() or the cancel_all_orders call of some strategy, the same one
\* or another, raises.
C21_StopAllCancelsEveryStrategy ==
    (orch_op = "stop_all") =>
        \A i \in 1..Len(strategies) :
            \E n \in CallsOf("cancel_all_orders") : cycle_log[n].strategy = i

\* C20: an exception raised by one strategy during scan_opportunities,
\* execute_trade or monitor_positions does not abort the cycle: every
\* enabled strategy is scanned, every signal found (whose category has
\* capital) is executed, and monitor_positions is called for every enabled
\* strategy in that same run_cycle.
C20_ExceptionDoesNotAbortCycle ==
    (orch_op = "run_cycle") =>
        LET en == {i \in 1..Len(strategies) : is_enabled(strategies[i])}
            called(op, i) == \E n \in CallsOf(op) : cycle_log[n].strategy = i
        IN /\ \A i \in en : called("scan_opportunities", i)
           /\ \A s \in CallsOf("scan_opportunities") :
                 ( /\ cycle_log[s].result = "signal"
                   /\ allocated(capital_allocated,
                                get_strategy_key(strategies[cycle_log[s].strategy])) > 0 )
                 => called("execute_trade", cycle_log[s].strategy)
           /\ \A i \in en : called("monitor_positions", i)

(***************************************************************************)
(*            PolymarketBotV2: the strategy execution loop                 *)
(* The loop and the tasks of its batch report to the bot's ConnectionPool  *)
(* under the name "strategy_execution".  The bot is observed while it      *)
(* runs (self.running is true from start() on).                            *)
(***************************************************************************)

\* number of (market, enabled strategy) pairs of one batch
MaxBatch == 2

\* _strategy_execution_loop(), from the head of an iteration to its next
\* await, with n tasks to run: the position of the loop and the number of
\* tasks started
execution_loop_head(n) ==
    IF ~can_execute THEN [pc |-> "sleep_open", tasks |-> 0]
    ELSE IF n = 0 THEN [pc |-> "sleep", tasks |-> 0]
    ELSE [pc |-> "gather", tasks |-> n]

\* start(): the gather of the main loops starts _strategy_execution_loop
bot_start ==
    /\ bot_pc = "idle"
    /\ \E n \in 0..MaxBatch :
         /\ bot_pc' = execution_loop_head(n).pc
         /\ bot_scanning' = execution_loop_head(n).tasks
    /\ bot_op' = "start"
    /\ UNCHANGED bot_executing
    /\ UNCHANGED <<cpVars, notCpBot>>

\* the loop wakes from asyncio.sleep and begins its next iteration
execution_loop_wakes ==
    /\ bot_pc \in {"sleep", "sleep_open"}
    /\ \E n \in 0..MaxBatch :
         /\ bot_pc' = execution_loop_head(n).pc
         /\ bot_scanning' = execution_loop_head(n).tasks
    /\ bot_op' = "loop"
    /\ UNCHANGED bot_executing
    /\ UNCHANGED <<cpVars, notCpBot>>

\* _execute_strategy_on_market(): the scan of a task returns a signal and
\* the task calls execute_trade
task_executes ==
    /\ bot_scanning > 0
    /\ bot_scanning' = bot_scanning - 1
    /\ bot_executing' = bot_executing + 1
    /\ bot_op' = "execute_trade"
    /\ UNCHANGED bot_pc
    /\ UNCHANGED <<cpVars, notCpBot>>

\* _execute_strategy_on_market(): the task returns with no report (the
\* strategy is full, the scan found nothing, or execute_trade returned None)
task_returns ==
    /\ \/ /\ bot_scanning > 0
          /\ bot_scanning' = bot_scanning - 1
          /\ UNCHANGED bot_executing
       \/ /\ bot_executing > 0
          /\ bot_executing' = bot_executing - 1
          /\ UNCHANGED bot_scanning
    /\ bot_op' = "return"
    /\ UNCHANGED bot_pc
    /\ UNCHANGED <<cpVars, notCpBot>>

\* _execute_strategy_on_market(): execute_trade returns a position id
task_succeeds ==
    /\ bot_executing > 0
    /\ bot_executing' = bot_executing - 1
    /\ record_success_to("strategy_execution")
    /\ cp_op' = "record_success"
    /\ bot_op' = "record_success"
    /\ UNCHANGED <<bot_pc, bot_scanning, cp_now>>
    /\ UNCHANGED notCpBot

\* _execute_strategy_on_market(): the scan or execute_trade raises
task_fails ==
    /\ \/ /\ bot_scanning > 0
          /\ bot_scanning' = bot_scanning - 1
          /\ UNCHANGED bot_executing
       \/ /\ bot_executing > 0
          /\ bot_executing' = bot_executing - 1
          /\ UNCHANGED bot_scanning
    /\ error_count < MaxErrorCount
    /\ record_error_to("strategy_execution")
    /\ cp_op' = "record_error"
    /\ bot_op' = "record_error"
    /\ UNCHANGED <<bot_pc, cp_now>>
    /\ UNCHANGED notCpBot

\* the gather of the batch returns and the loop sleeps
batch_done ==
    /\ bot_pc = "gather"
    /\ bot_scanning = 0
    /\ bot_executing = 0
    /\ bot_pc' = "sleep"
    /\ bot_op' = "batch_done"
    /\ UNCHANGED <<bot_scanning, bot_executing>>
    /\ UNCHANGED <<cpVars, notCpBot>>

InitBot ==
    /\ bot_pc = "idle"
    /\ bot_scanning = 0
    /\ bot_executing = 0
    /\ bot_op = "none"

NextBot ==
    \/ bot_start
    \/ execution_loop_wakes
    \/ task_executes
    \/ task_returns
    \/ task_succeeds
    \/ task_fails
    \/ batch_done
    \/ CpTick

\* _market_discovery_loop(): one iteration, from get_active_markets() to
\* the sleep.  The bot's scanner has been started (start() has returned);
\* the connection has no socket (polling mode, or not connected), so that
\* each subscribe_market call adds its id and returns without suspending.
market_discovery_loop ==
    /\ running
    /\ start_pc = "idle"
    /\ ~(mode = WEBSOCKET /\ ws # "none")
    /\ LET markets == get_active_markets
           with_tokens == {i \in 1..Len(markets) :
                              get_market_tokens(markets[i].id) # {}}
       IN subscribed_markets' =
              subscribed_markets
                \cup UNION {{market_tokens[markets[i].id][1],
                              market_tokens[markets[i].id][2]} : i \in with_tokens}
    /\ ws_op' = "subscribe"
    /\ ws_sent' = NoFrame
    /\ ws_calls' = NoCalls
    /\ UNCHANGED <<mode, ws, ws_session, ws_running, reconnect_attempts, message_count,
                   latency_samples, ws_start_pc, ws_loops, poll_sleep, poll_round,
                   ws_downgraded>>
    /\ UNCHANGED notWs

\* the bot's scanner, started once, and the bot's discovery loop
NextDiscovery ==
    \/ start
    \/ start_scanned
    \/ scanning_loop
    \/ scanning_loop_scanned
    \/ MsTick
    \/ market_discovery_loop

(***************************************************************************)
(*                     PolymarketBotV2: the claims                         *)
(***************************************************************************)

\* C40: the connection's interest set only ever contains side identifiers
\* of entities currently in the scanner's registry, the side identifiers of
\* an evicted entity being unsubscribed, so that the number of
\* subscriptions stays at most 2 * max_markets.
C40_SubscriptionsBounded ==
    Cardinality(subscribed_markets) <= 2 * max_markets

\* C19: execute_trade of a strategy is never invoked at a moment when
\* can_execute() is false, in particular not by a task of a batch that is
\* still running when another task of the same batch has opened the circuit.
C19_NoExecuteWhileCircuitOpen ==
    (bot_op = "execute_trade") => can_execute

\* C22: every execution attempt is followed by exactly one outcome report:
\* when the execute_trade call of a task ends, the task calls
\* record_success (a position id was returned) or record_error (the attempt
\* failed, by raising or by returning no position id).
C22_EveryAttemptReported ==
    [][ (bot_executing' < bot_executing)
            => bot_op' \in {"record_success", "record_error"} ]_vars

(***************************************************************************)
(*                          The specifications                             *)
(***************************************************************************)

Init == InitSpike /\ InitPool /\ InitScanner /\ InitStream /\ InitEvents
        /\ InitOrch /\ InitBot

SpecSpike == Init /\ [][NextSpike]_vars

SpecPool == Init /\ [][NextPool]_vars

SpecScanner == Init /\ [][NextScanner]_vars

SpecStream == Init /\ [][NextStream]_vars

SpecEvents == Init /\ [][NextEvents]_vars

SpecTasks == Init /\ [][NextTasks]_vars

SpecOrch == Init /\ [][NextOrch]_vars

SpecBot == Init /\ [][NextBot]_vars

SpecDiscovery == Init /\ [][NextDiscovery]_vars

====
